---- MODULE Spec2Model ----
(***************************************************************************)
(* Model of the Agion governance SDK:                                      *)
(*   - PolicyEngine        (agion_sdk/policy_engine.py)                    *)
(*   - PolicySyncWorker    (agion_sdk/policy_sync.py)                      *)
(*   - EventClient         (agion_sdk/events.py)                           *)
(*   - GovernanceClient    (agion_sdk/governance_client.py), L1 cache      *)
(*   - GovernanceClientRedis (backend/core/governance_client_redis.py)     *)
(* All components run on one asyncio event loop: the code between two      *)
(* awaits of a coroutine is one atomic step.                               *)
(***************************************************************************)
EXTENDS Integers, Sequences, FiniteSets, TLC

NULL == "NULL"

\* ------------------------------------------------------------------------
\* Bounds
\* ------------------------------------------------------------------------
MaxRules == 2
MaxSyncs == 2
MaxTime == 1
MaxEvents == 5
MaxFailures == 1
TimeoutSlices == 2
MaxJunk == 1
MaxUnserializable == 1
MaxClock == 30
MaxNotify == 1
MaxVersion == 2

\* ------------------------------------------------------------------------
\* PolicyEngine: types
\* ------------------------------------------------------------------------
ALLOW == "allow"
DENY == "deny"
WARN == "warn"
REQUIRE_APPROVAL == "require_approval"
PolicyDecision == {ALLOW, DENY, WARN, REQUIRE_APPROVAL}

ADVISORY == "advisory"
SOFT == "soft"
HARD == "hard"
CRITICAL == "critical"
EnforcementLevel == {ADVISORY, SOFT, HARD, CRITICAL}

\* policy expressions: one that depends on the context, one whose eval() raises
ExprDelete == "action == 'delete'"
ExprRaises == "undefined_name"
Expressions == {ExprDelete, ExprRaises}

Priorities == {1, 2}
Actions == {"delete", "read"}
IdSeq == <<"r1", "r2", "r3", "r4">>
NameSeq == <<"n1", "n2", "n3", "n4">>

PolicyContext == [action : Actions]

RuleBody == [priority : Priorities, decision : PolicyDecision,
             enforcement : EnforcementLevel, expression : Expressions]

PolicyRule(i, b) ==
    [id |-> IdSeq[i], name |-> NameSeq[i], expression |-> b.expression,
     decision |-> b.decision, priority |-> b.priority,
     enforcement |-> b.enforcement]

\* a rule list with distinct ids, as the dict holds it
RuleList(n, bs) == [i \in 1..n |-> PolicyRule(i, bs[i])]

\* ------------------------------------------------------------------------
\* State
\* ------------------------------------------------------------------------
VARIABLES
    policies,      \* PolicyEngine._policies, a dict in insertion order
    evalCtx,       \* context of the last evaluate call (NULL: none yet)
    evalResult,    \* outcome of the last evaluate call
    scanned,       \* the rule list the last evaluate iterated over
    loaded,        \* the rule list last handed to load_policies
    expected,      \* value of loaded when the last evaluate ran
    \* PolicySyncWorker
    task,          \* per caller: the _sync_policies coroutine it is running
    done,          \* the refresh that ended last: its caller, answer, outcome
    last_sync,     \* _last_sync (NoSync: None)
    sync_count,    \* _sync_count
    sync_errors,   \* _sync_errors
    now,           \* wall clock, in ticks
    started,       \* number of refreshes started so far
    \* EventClient
    buffer,          \* _buffer, a deque(maxlen=event_buffer_size)
    ev_running,      \* _running
    conn,            \* _redis: "none", "open", "closed"
    worker,          \* _flush_task running _flush_worker
    capScheduled,    \* flush tasks created by _publish_event, not yet started
    capInflight,     \* batches of started flush tasks awaiting pipe.execute()
    disc,            \* the disconnect() call
    nextId,          \* number of the next event to be published
    published_count, \* _published_count
    failed_count,    \* _failed_count
    failures,        \* number of failed batch writes so far
    written,         \* events written to their streams
    base,            \* the buffer after its last drain or requeue
    pubs,            \* events accepted since then, in publish order
    \* GovernanceClientRedis
    rpc_redis,       \* _redis is set
    call,            \* per call: position, kind, elapsed time, batch, result
    requests,        \* correlation ids appended to governance:requests
    responses,       \* records of governance:responses:{container_id}
    group,           \* the consumer group exists
    lastDelivered,   \* number of records the group has delivered
    pel,             \* pending entries: delivered and not acknowledged
    seen,            \* per call: indexes of the records delivered to it
    \* GovernanceClient (HTTP), L1 permission cache
    pcache,          \* _permission_cache, an OrderedDict: front is oldest
    pcall,           \* per caller: its check_permission call
    cnow,            \* wall clock, in seconds
    \* PolicySyncWorker, start() and stop()
    running,         \* _running
    start_pc,        \* position of the start() call
    stop_pc,         \* position of the stop() call
    pubsub_task,     \* _pubsub_task: "none", "live", "cancelled", "done"
    sync_task,       \* _sync_task: "none", "live", "cancelled", "done"
    sync_redis,      \* _redis: "none", "open", "closed"
    http_session,    \* _http_session: "none", "open", "closed"
    \* EventClient, payloads
    payloads,        \* per event id: the data dict handed to _publish_event
    \* PolicySyncWorker, its surroundings
    inbox,           \* messages of agion:policy:updates not yet handed to
                     \* the listener by pubsub.listen()
    notified,        \* number of messages delivered on the channel so far
    upstream,        \* version of the policy set the gateway serves
    \* AgionSDK and the governance wrappers
    gcall,           \* the call of a governed function or node
    sdk              \* _initialized, _http_session, and the positions of
                     \* the initialize() and disconnect() calls

policyVars == <<policies, evalCtx, evalResult, scanned, loaded, expected>>
syncVars == <<task, done, last_sync, sync_count, sync_errors, now, started>>
eventVars == <<buffer, ev_running, conn, worker, capScheduled, capInflight,
               disc, nextId, published_count, failed_count, failures,
               written, base, pubs, payloads>>
rpcVars == <<rpc_redis, call, requests, responses, group, lastDelivered,
            pel, seen>>
cacheVars == <<pcache, pcall, cnow>>
lifeVars == <<running, start_pc, stop_pc, pubsub_task, sync_task, sync_redis,
              http_session>>

chanVars == <<inbox, notified, upstream>>
sdkVars == <<gcall, sdk>>

\* what the actions of one component leave alone
notPolicy == <<eventVars, rpcVars, cacheVars, lifeVars, chanVars, sdkVars>>
notEvents == <<policyVars, syncVars, rpcVars, cacheVars, lifeVars, chanVars,
               sdkVars>>
notRpc == <<policyVars, syncVars, eventVars, cacheVars, lifeVars, chanVars,
            sdkVars>>
notCache == <<policyVars, syncVars, eventVars, rpcVars, lifeVars, chanVars,
              sdkVars>>
notSync == <<eventVars, rpcVars, cacheVars, chanVars, sdkVars>>
notLife == <<eventVars, rpcVars, cacheVars, sdkVars>>

\* ------------------------------------------------------------------------
\* PolicyEngine: operations
\* ------------------------------------------------------------------------
RECURSIVE DictIndex(_, _, _)
DictIndex(d, id, i) ==
    IF i > Len(d) THEN 0
    ELSE IF d[i].id = id THEN i ELSE DictIndex(d, id, i + 1)

\* self._policies[policy.id] = policy
DictSet(d, policy) ==
    LET i == DictIndex(d, policy.id, 1)
    IN  IF i = 0 THEN Append(d, policy) ELSE [d EXCEPT ![i] = policy]

RECURSIVE LoadLoop(_, _)
LoadLoop(d, ps) ==
    IF ps = <<>> THEN d ELSE LoadLoop(DictSet(d, Head(ps)), Tail(ps))

\* mutant: the store is not cleared before the new rules are inserted
load_policies_NoClear(store, ps) == LoadLoop(store, ps)

\* mutant: the new rules are added after the ones the store holds
load_policies_Extend(store, ps) == store \o ps

\* clear(), then insert every policy
load_policies(store, ps) == LoadLoop(<<>>, ps)

\* eval(policy.expression, ...): "true", "false" or "raise"
EvalExpr(expression, context) ==
    IF expression = ExprDelete
    THEN (IF context.action = "delete" THEN "true" ELSE "false")
    ELSE "raise"

\* mutant: a raising expression counts as a match
evaluate_expression_RaiseMatches(policy, context) ==
    EvalExpr(policy.expression, context) # "false"

\* a raising expression counts as no match
evaluate_expression(policy, context) ==
    EvalExpr(policy.expression, context) = "true"

\* mutant: a rule is placed before the rules of equal priority
RECURSIVE InsertSorted_BeforeEqual(_, _)
InsertSorted_BeforeEqual(s, r) ==
    IF s = <<>> THEN <<r>>
    ELSE IF Head(s).priority > r.priority
         THEN <<Head(s)>> \o InsertSorted_BeforeEqual(Tail(s), r)
         ELSE <<r>> \o s

\* one insertion of the stable descending sort
RECURSIVE InsertSorted(_, _)
InsertSorted(s, r) ==
    IF s = <<>> THEN <<r>>
    ELSE IF Head(s).priority >= r.priority
         THEN <<Head(s)>> \o InsertSorted(Tail(s), r)
         ELSE <<r>> \o s

RECURSIVE SortLoop(_, _)
SortLoop(acc, rest) ==
    IF rest = <<>> THEN acc
    ELSE SortLoop(InsertSorted(acc, Head(rest)), Tail(rest))

\* sorted(values, key=priority, reverse=True): stable, descending
SortedByPriority(d) == SortLoop(<<>>, d)

NoContext == [action |-> NULL]

\* no evaluate call has been made yet
NoResult ==
    [kind |-> "none", decision |-> NULL, allowed |-> FALSE,
     matched_policies |-> <<>>, violations |-> <<>>, warnings |-> <<>>,
     policy_id |-> NULL]

EvalStart ==
    [matched_policies |-> <<>>, violations |-> <<>>, warnings |-> <<>>,
     final_decision |-> ALLOW]

\* mutant: a DENY rule blocks whatever its enforcement level
EvalStep_AnyDenyBlocks(acc, policy, context) ==
    IF ~evaluate_expression(policy, context) THEN acc
    ELSE LET m == [acc EXCEPT !.matched_policies = Append(@, policy.id)]
         IN  IF policy.decision = DENY
             THEN [m EXCEPT !.violations = Append(@, policy.name),
                            !.final_decision = DENY]
             ELSE IF policy.decision = WARN
                  THEN [m EXCEPT !.warnings = Append(@, policy.name)]
                  ELSE IF policy.decision = REQUIRE_APPROVAL
                       THEN [m EXCEPT !.final_decision = REQUIRE_APPROVAL]
                       ELSE m

\* body of the for loop for one policy
EvalStep(acc, policy, context) ==
    IF ~evaluate_expression(policy, context) THEN acc
    ELSE LET m == [acc EXCEPT !.matched_policies = Append(@, policy.id)]
         IN  IF policy.decision = DENY
             THEN IF policy.enforcement \in {HARD, CRITICAL}
                  THEN [m EXCEPT !.violations = Append(@, policy.name),
                                 !.final_decision = DENY]
                  ELSE IF policy.enforcement = SOFT
                       THEN [m EXCEPT !.warnings = Append(@, policy.name)]
                       ELSE m
             ELSE IF policy.decision = WARN
                  THEN [m EXCEPT !.warnings = Append(@, policy.name)]
                  ELSE IF policy.decision = REQUIRE_APPROVAL
                       THEN [m EXCEPT !.final_decision = REQUIRE_APPROVAL]
                       ELSE m

RECURSIVE EvalLoop(_, _, _)
EvalLoop(acc, ps, context) ==
    IF ps = <<>> THEN acc
    ELSE EvalLoop(EvalStep(acc, Head(ps), context), Tail(ps), context)

\* mutant: the violation names the last matched policy
evaluate_LastMatched(d, context) ==
    LET acc == EvalLoop(EvalStart, SortedByPriority(d), context)
        allowed == acc.final_decision # DENY
        raises == ~allowed /\ acc.violations # <<>>
    IN  [kind |-> IF raises THEN "PolicyViolationError" ELSE "return",
         decision |-> acc.final_decision,
         allowed |-> allowed,
         matched_policies |-> acc.matched_policies,
         violations |-> acc.violations,
         warnings |-> acc.warnings,
         policy_id |-> IF raises
                       THEN acc.matched_policies[Len(acc.matched_policies)]
                       ELSE NULL]

\* PolicyEngine.evaluate on a snapshot of the dict's values
evaluate(d, context) ==
    LET acc == EvalLoop(EvalStart, SortedByPriority(d), context)
        allowed == acc.final_decision # DENY
    IN  IF ~allowed /\ acc.violations # <<>>
        THEN [kind |-> "PolicyViolationError",
              decision |-> acc.final_decision,
              allowed |-> allowed,
              matched_policies |-> acc.matched_policies,
              violations |-> acc.violations,
              warnings |-> acc.warnings,
              policy_id |-> IF acc.matched_policies # <<>>
                            THEN acc.matched_policies[1] ELSE NULL]
        ELSE [kind |-> "return",
              decision |-> acc.final_decision,
              allowed |-> allowed,
              matched_policies |-> acc.matched_policies,
              violations |-> acc.violations,
              warnings |-> acc.warnings,
              policy_id |-> NULL]

\* ------------------------------------------------------------------------
\* Actions of the policy engine
\* ------------------------------------------------------------------------
Evaluate(context) ==
    /\ evalCtx' = context
    /\ scanned' = policies
    /\ expected' = loaded
    /\ evalResult' = evaluate(policies, context)
    /\ UNCHANGED <<policies, loaded>>
    /\ UNCHANGED syncVars
    /\ UNCHANGED notPolicy

\* ------------------------------------------------------------------------
\* PolicySyncWorker
\* ------------------------------------------------------------------------
NoSync == -1
Callers == {"start", "push", "poll"}
HttpStatus == {200, 404, 500}

\* raw policy records of the gateway's JSON answer; RawBad lacks "id"
RawA == [id |-> "r1", name |-> "n1", policy_expression |-> ExprDelete,
         enforcement |-> DENY, priority |-> 2, enforcement_level |-> HARD]
RawB == [id |-> "r2", name |-> "n2", policy_expression |-> ExprDelete,
         enforcement |-> WARN, priority |-> 1, enforcement_level |-> SOFT]
RawBad == [id |-> NULL, name |-> "n3", policy_expression |-> ExprDelete,
           enforcement |-> DENY, priority |-> 1, enforcement_level |-> SOFT]
UpstreamData == {<<RawA>>, <<RawB, RawA>>, <<RawA, RawBad>>}

\* PolicyRule(id=data["id"], ...) raises KeyError / ValidationError
ParseRaises(raw) ==
    \/ raw.id = NULL
    \/ raw.name = NULL
    \/ raw.enforcement \notin PolicyDecision
    \/ raw.enforcement_level \notin EnforcementLevel

parse_policy(raw) ==
    [id |-> raw.id, name |-> raw.name, expression |-> raw.policy_expression,
     decision |-> raw.enforcement, priority |-> raw.priority,
     enforcement |-> raw.enforcement_level]

\* [self._parse_policy(p) for p in policies_data]
ParseAll(data) == [i \in 1..Len(data) |-> parse_policy(data[i])]
ParseAllRaises(data) == \E i \in 1..Len(data) : ParseRaises(data[i])

IdleTask == [pc |-> "idle", status |-> 0, data |-> <<>>]

NoneDone == [caller |-> NULL, status |-> 0, data |-> <<>>, exc |-> FALSE,
             escaped |-> FALSE]

SyncIdle ==
    /\ task = [c \in Callers |-> IdleTask]
    /\ done = NoneDone
    /\ last_sync = NoSync
    /\ sync_count = 0
    /\ sync_errors = 0
    /\ now = 0
    /\ started = 0

\* mutant: only a 200 answer counts as a refresh
SyncSucceeds_NotFoundIsError(status, data) ==
    status = 200 /\ ~ParseAllRaises(data)

\* what the body of the try block does once the answer has been read
SyncSucceeds(status, data) ==
    \/ status = 404
    \/ status = 200 /\ ~ParseAllRaises(data)

\* mutant: a failed fetch clears the store
StoreAfterSync_ClearOnError(store, status, data) ==
    IF status = 200 /\ ~ParseAllRaises(data)
    THEN load_policies(store, ParseAll(data))
    ELSE <<>>

StoreAfterSync(store, status, data) ==
    IF status = 200 /\ ~ParseAllRaises(data)
    THEN load_policies(store, ParseAll(data))
    ELSE IF status = 404 THEN load_policies(store, <<>>)
         ELSE store

LoadedAfterSync(old, status, data) ==
    IF status = 200 /\ ~ParseAllRaises(data) THEN ParseAll(data)
    ELSE IF status = 404 THEN <<>>
         ELSE old

\* end of _sync_policies with the answer (status, data) read in full
Finish(c, status, data) ==
    /\ task' = [task EXCEPT ![c] = IdleTask]
    /\ done' = [caller |-> c, status |-> status, data |-> data,
                exc |-> FALSE, escaped |-> FALSE]
    /\ policies' = StoreAfterSync(policies, status, data)
    /\ loaded' = LoadedAfterSync(loaded, status, data)
    /\ last_sync' = IF SyncSucceeds(status, data) THEN now ELSE last_sync
    /\ sync_count' = IF status = 200 /\ ~ParseAllRaises(data)
                     THEN sync_count + 1 ELSE sync_count
    /\ sync_errors' = IF SyncSucceeds(status, data)
                      THEN sync_errors ELSE sync_errors + 1

\* an exception raised by an await inside the try block
FinishException(c) ==
    /\ task' = [task EXCEPT ![c] = IdleTask]
    /\ done' = [caller |-> c, status |-> task[c].status,
                data |-> task[c].data, exc |-> TRUE, escaped |-> FALSE]
    /\ sync_errors' = sync_errors + 1
    /\ UNCHANGED <<policies, loaded, last_sync, sync_count>>

\* a caller enters _sync_policies and awaits session.get
SyncStart(c) ==
    /\ task[c].pc = "idle"
    /\ started < MaxSyncs
    /\ started' = started + 1
    /\ task' = [task EXCEPT ![c] = [IdleTask EXCEPT !.pc = "get"]]
    /\ UNCHANGED <<done, last_sync, sync_count, sync_errors, now>>
    /\ UNCHANGED policyVars
    /\ UNCHANGED notPolicy

\* session.get raises (connection refused, timeout)
SyncGetFails(c) ==
    /\ task[c].pc = "get"
    /\ FinishException(c)
    /\ UNCHANGED <<now, started, evalCtx, evalResult, scanned, expected>>
    /\ UNCHANGED notPolicy

\* the response headers arrive
SyncGetResponds(c, status, data) ==
    /\ task[c].pc = "get"
    /\ IF status = 404
       THEN Finish(c, status, <<>>)
       ELSE /\ task' = [task EXCEPT ![c] = [pc |-> "body", status |-> status,
                                            data |-> data]]
            /\ UNCHANGED <<done, policies, loaded, last_sync, sync_count,
                           sync_errors>>
    /\ UNCHANGED <<now, started, evalCtx, evalResult, scanned, expected>>
    /\ UNCHANGED notPolicy

\* response.json() / response.text() raises
SyncBodyFails(c) ==
    /\ task[c].pc = "body"
    /\ FinishException(c)
    /\ UNCHANGED <<now, started, evalCtx, evalResult, scanned, expected>>
    /\ UNCHANGED notPolicy

\* response.json() / response.text() returns
SyncBodyRead(c) ==
    /\ task[c].pc = "body"
    /\ Finish(c, task[c].status, task[c].data)
    /\ UNCHANGED <<now, started, evalCtx, evalResult, scanned, expected>>
    /\ UNCHANGED notPolicy

Tick ==
    /\ now < MaxTime
    /\ now' = now + 1
    /\ UNCHANGED <<task, done, last_sync, sync_count, sync_errors, started>>
    /\ UNCHANGED policyVars
    /\ UNCHANGED notPolicy

\* ------------------------------------------------------------------------
\* PolicySyncWorker.start and stop
\* ------------------------------------------------------------------------
LifeIdle ==
    /\ running = FALSE
    /\ start_pc = "idle"
    /\ stop_pc = "idle"
    /\ pubsub_task = "none"
    /\ sync_task = "none"
    /\ sync_redis = "none"
    /\ http_session = "none"
    /\ inbox = <<>>
    /\ notified = 0
    /\ upstream = 1

\* the clock counts sync intervals
policy_sync_interval == 1

\* mutant: the poll loop refreshes on every wake-up
should_sync_Always == TRUE

\* _should_sync()
should_sync ==
    last_sync = NoSync \/ now - last_sync >= policy_sync_interval

\* what pubsub.listen() yields: the confirmation of the subscription and the
\* messages published on the channel, whose data is a JSON object, some
\* other JSON value or not JSON at all
MessageData == {"json_object", "json_other", "not_json"}
Messages ==
    {[type |-> "subscribe", data |-> "int"]}
        \cup {[type |-> "message", data |-> d] : d \in MessageData}

\* json.loads(message["data"]): "dict", "other" or "raise"
JsonLoads(data) ==
    IF data = "json_object" THEN "dict"
    ELSE IF data = "json_other" THEN "other" ELSE "raise"

\* json.loads raises, or data.get raises AttributeError on a value that is
\* not a dict
ProcessRaises(message) == JsonLoads(message.data) # "dict"

\* mutant: the listener refreshes on every message, whatever its data
Refetches_AnyPayload(message) == message.type = "message"

\* the listener reaches "await self._sync_policies()" for the message
Refetches(message) ==
    message.type = "message" /\ ~ProcessRaises(message)

\* task.cancel(): a task that has not finished gets CancelledError
CancelTask(t) == IF t = "live" THEN "cancelled" ELSE t

\* start() up to "await aioredis.from_url(...)"
Start ==
    /\ start_pc = "idle"
    /\ ~running
    /\ running' = TRUE
    /\ start_pc' = "connecting"
    /\ UNCHANGED <<stop_pc, pubsub_task, sync_task, sync_redis, http_session>>
    /\ UNCHANGED <<policyVars, syncVars, notSync>>

\* from_url raises: _running is reset and PolicySyncError is raised
StartConnectFails ==
    /\ start_pc = "connecting"
    /\ running' = FALSE
    /\ start_pc' = "failed"
    /\ UNCHANGED <<stop_pc, pubsub_task, sync_task, sync_redis, http_session>>
    /\ UNCHANGED <<policyVars, syncVars, notSync>>

\* from_url returns: the session and both tasks are created and the initial
\* _sync_policies() runs up to session.get
StartConnected ==
    /\ start_pc = "connecting"
    /\ started < MaxSyncs
    /\ start_pc' = "initial_sync"
    /\ sync_redis' = "open"
    /\ http_session' = "open"
    /\ pubsub_task' = "live"
    /\ sync_task' = "live"
    /\ started' = started + 1
    /\ task' = [task EXCEPT !["start"] = [IdleTask EXCEPT !.pc = "get"]]
    /\ UNCHANGED <<running, stop_pc>>
    /\ UNCHANGED <<done, last_sync, sync_count, sync_errors, now>>
    /\ UNCHANGED <<policyVars, notSync>>

\* the initial sync has ended: start() returns
StartReturns ==
    /\ start_pc = "initial_sync"
    /\ task["start"].pc = "idle"
    /\ start_pc' = "done"
    /\ UNCHANGED <<running, stop_pc, pubsub_task, sync_task, sync_redis,
                   http_session>>
    /\ UNCHANGED <<policyVars, syncVars, notSync>>

\* a message is published on agion:policy:updates, or the subscription is
\* confirmed
ChannelDelivers(message) ==
    /\ sync_redis = "open"
    /\ notified < MaxNotify
    /\ notified' = notified + 1
    /\ inbox' = Append(inbox, message)
    /\ UNCHANGED upstream
    /\ UNCHANGED <<policyVars, syncVars, lifeVars, notLife>>

\* pubsub.listen() yields the next message to the listener
PushNotified ==
    /\ pubsub_task = "live"
    /\ task["push"].pc = "idle"
    /\ inbox # <<>>
    /\ inbox' = Tail(inbox)
    /\ IF ~running
       THEN /\ pubsub_task' = "done"
            /\ UNCHANGED syncVars
       ELSE /\ UNCHANGED pubsub_task
            /\ IF Refetches(Head(inbox))
               THEN /\ started < MaxSyncs
                    /\ started' = started + 1
                    /\ task' = [task EXCEPT
                                   !["push"] = [IdleTask EXCEPT !.pc = "get"]]
                    /\ UNCHANGED <<done, last_sync, sync_count, sync_errors,
                                   now>>
               ELSE UNCHANGED syncVars
    /\ UNCHANGED <<running, start_pc, stop_pc, sync_task, sync_redis,
                   http_session>>
    /\ UNCHANGED <<notified, upstream>>
    /\ UNCHANGED <<policyVars, notLife>>

\* the timer of asyncio.sleep(policy_sync_interval) fires: the poll task is
\* ready to run
PollTimer ==
    /\ sync_task = "live"
    /\ task["poll"].pc = "idle"
    /\ task' = [task EXCEPT !["poll"] = [IdleTask EXCEPT !.pc = "ready"]]
    /\ UNCHANGED <<done, last_sync, sync_count, sync_errors, now, started>>
    /\ UNCHANGED lifeVars
    /\ UNCHANGED <<policyVars, notSync>>

\* the poll task resumes after its sleep: it leaves the loop, refreshes or
\* goes back to sleep
PollWakes ==
    /\ sync_task = "live"
    /\ task["poll"].pc = "ready"
    /\ IF ~running
       THEN /\ sync_task' = "done"
            /\ task' = [task EXCEPT !["poll"] = IdleTask]
            /\ UNCHANGED started
       ELSE /\ UNCHANGED sync_task
            /\ IF should_sync
               THEN /\ started < MaxSyncs
                    /\ started' = started + 1
                    /\ task' = [task EXCEPT
                                   !["poll"] = [IdleTask EXCEPT !.pc = "get"]]
               ELSE /\ task' = [task EXCEPT !["poll"] = IdleTask]
                    /\ UNCHANGED started
    /\ UNCHANGED <<done, last_sync, sync_count, sync_errors, now>>
    /\ UNCHANGED <<running, start_pc, stop_pc, pubsub_task, sync_redis,
                   http_session>>
    /\ UNCHANGED <<policyVars, notSync>>

\* mutant: an error of the listener stops the worker
PushFails_StopsWorker ==
    /\ pubsub_task = "live"
    /\ task["push"].pc = "idle"
    /\ pubsub_task' = "done"
    /\ running' = FALSE
    /\ UNCHANGED <<start_pc, stop_pc, sync_task, sync_redis, http_session>>
    /\ UNCHANGED chanVars
    /\ UNCHANGED <<policyVars, syncVars, notLife>>

\* subscribe() or listen() raises (the connection to Redis is refused or
\* lost): the listener logs the error and ends
PushFails ==
    /\ pubsub_task = "live"
    /\ task["push"].pc = "idle"
    /\ pubsub_task' = "done"
    /\ UNCHANGED <<running, start_pc, stop_pc, sync_task, sync_redis,
                   http_session>>
    /\ UNCHANGED chanVars
    /\ UNCHANGED <<policyVars, syncVars, notLife>>

\* stop() up to its first await
Stop ==
    /\ stop_pc = "idle"
    /\ running
    /\ running' = FALSE
    /\ IF pubsub_task # "none"
       THEN /\ pubsub_task' = CancelTask(pubsub_task)
            /\ stop_pc' = "join_pubsub"
       ELSE /\ stop_pc' = "done"
            /\ UNCHANGED pubsub_task
    /\ UNCHANGED <<start_pc, sync_task, sync_redis, http_session>>
    /\ UNCHANGED <<policyVars, syncVars, notSync>>

\* CancelledError reaches the listener at its await: it ends without
\* finishing the refresh it was running
PubsubCancelled ==
    /\ pubsub_task = "cancelled"
    /\ pubsub_task' = "done"
    /\ task' = [task EXCEPT !["push"] = IdleTask]
    /\ UNCHANGED <<running, start_pc, stop_pc, sync_task, sync_redis,
                   http_session>>
    /\ UNCHANGED <<done, last_sync, sync_count, sync_errors, now, started>>
    /\ UNCHANGED <<policyVars, notSync>>

\* "await self._pubsub_task" returns; the poll loop is cancelled
StopJoinedPubsub ==
    /\ stop_pc = "join_pubsub"
    /\ pubsub_task = "done"
    /\ sync_task' = CancelTask(sync_task)
    /\ stop_pc' = "join_sync"
    /\ UNCHANGED <<running, start_pc, pubsub_task, sync_redis, http_session>>
    /\ UNCHANGED <<policyVars, syncVars, notSync>>

PollCancelled ==
    /\ sync_task = "cancelled"
    /\ sync_task' = "done"
    /\ task' = [task EXCEPT !["poll"] = IdleTask]
    /\ UNCHANGED <<running, start_pc, stop_pc, pubsub_task, sync_redis,
                   http_session>>
    /\ UNCHANGED <<done, last_sync, sync_count, sync_errors, now, started>>
    /\ UNCHANGED <<policyVars, notSync>>

\* "await self._sync_task" returns; "await self._redis.close()"
StopJoinedSync ==
    /\ stop_pc = "join_sync"
    /\ sync_task = "done"
    /\ stop_pc' = "close_redis"
    /\ UNCHANGED <<running, start_pc, pubsub_task, sync_task, sync_redis,
                   http_session>>
    /\ UNCHANGED <<policyVars, syncVars, notSync>>

\* the Redis client is closed; "await self._http_session.close()"
StopRedisClosed ==
    /\ stop_pc = "close_redis"
    /\ sync_redis' = "closed"
    /\ stop_pc' = "close_http"
    /\ UNCHANGED <<running, start_pc, pubsub_task, sync_task, http_session>>
    /\ UNCHANGED <<policyVars, syncVars, notSync>>

\* the HTTP session is closed: stop() returns
StopHttpClosed ==
    /\ stop_pc = "close_http"
    /\ http_session' = "closed"
    /\ stop_pc' = "done"
    /\ UNCHANGED <<running, start_pc, pubsub_task, sync_task, sync_redis>>
    /\ UNCHANGED <<policyVars, syncVars, notSync>>

\* a step of a refresh that is in flight and has not been cancelled
RefreshStep(c) ==
    /\ c = "push" => pubsub_task = "live"
    /\ c = "poll" => sync_task = "live"
    /\ \/ SyncGetFails(c)
       \/ \E st \in HttpStatus, d \in UpstreamData : SyncGetResponds(c, st, d)
       \/ SyncBodyFails(c)
       \/ SyncBodyRead(c)

\* the policy sets the gateway holds for the agent, version after version
UpstreamAt == << <<RawB, RawA>>, <<RawA>>, <<RawB>>, <<RawA, RawB>> >>

\* the agent's active policies are changed at the gateway
UpstreamChanges ==
    /\ upstream < MaxVersion
    /\ upstream < Len(UpstreamAt)
    /\ upstream' = upstream + 1
    /\ UNCHANGED <<inbox, notified>>
    /\ UNCHANGED <<policyVars, syncVars, lifeVars, notLife>>

\* the gateway answers the GET with the policy set it holds, or with an
\* error status
GatewayAnswers(c) ==
    \E status \in {200, 500} :
        SyncGetResponds(c, status, UpstreamAt[upstream])

\* a step of a refresh that is in flight and has not been cancelled, served
\* by the gateway
UpstreamRefreshStep(c) ==
    /\ c = "push" => pubsub_task = "live"
    /\ c = "poll" => sync_task = "live"
    /\ \/ SyncGetFails(c)
       \/ GatewayAnswers(c)
       \/ SyncBodyFails(c)
       \/ SyncBodyRead(c)

\* ------------------------------------------------------------------------
\* EventClient
\* ------------------------------------------------------------------------
event_buffer_size == 2

\* mutant: a plain list, nothing is discarded
DequeAppend_Unbounded(buf, e) == buf \o <<e>>

\* mutant: a full buffer rejects the new event
DequeAppend_DropNewest(buf, e) ==
    IF Len(buf) >= event_buffer_size THEN buf ELSE buf \o <<e>>

\* deque.append with maxlen: a full deque discards its leftmost item
DequeAppend(buf, e) ==
    IF Len(buf) >= event_buffer_size
    THEN Tail(buf) \o <<e>>
    ELSE buf \o <<e>>

RECURSIVE AppendAll(_, _)
AppendAll(buf, es) ==
    IF es = <<>> THEN buf
    ELSE AppendAll(DequeAppend(buf, Head(es)), Tail(es))

\* for event in events[:event_buffer_size]: self._buffer.append(event)
Requeue(buf, events) ==
    AppendAll(buf, SubSeq(events, 1,
                          IF Len(events) < event_buffer_size
                          THEN Len(events) ELSE event_buffer_size))

SeqSet(q) == {q[i] : i \in 1..Len(q)}

\* the data dicts of the publish methods, by the type of each value:
\* publish_user_feedback stores timestamp.isoformat(), publish_trust_event
\* stores TrustEvent.model_dump(), whose timestamp is a datetime
FeedbackPayload == [execution_id |-> "str", rating |-> "int",
                    timestamp |-> "str"]
TrustPayload == [agent_id |-> "str", impact |-> "float",
                 timestamp |-> "datetime"]
Payloads == {FeedbackPayload, TrustPayload}

\* json.dumps(v) raises TypeError for a value that is not JSON serializable
JsonDumpsRaises(type) == type \notin {"str", "int", "float", "dict", "None"}

\* {k: json.dumps(v) if not isinstance(v, str) else v for k, v in data.items()}
RedisDataRaises(data) ==
    \E k \in DOMAIN data : data[k] # "str" /\ JsonDumpsRaises(data[k])

\* events published so far whose data dict cannot be converted (trust events
\* carry a datetime timestamp); the model follows up to MaxUnserializable
Unserializable ==
    Cardinality({i \in 1..Len(payloads) : RedisDataRaises(payloads[i])})

\* the loop that fills the pipeline raises for some event of the batch
PipelineRaises(batch) ==
    \E i \in 1..Len(batch) : RedisDataRaises(payloads[batch[i]])

NoFlush == [pc |-> "none", batch |-> <<>>]

EventsIdle ==
    /\ buffer = <<>>
    /\ ev_running = FALSE
    /\ conn = "none"
    /\ worker = NoFlush
    /\ capScheduled = 0
    /\ capInflight = {}
    /\ disc = [pc |-> "idle", batch |-> <<>>]
    /\ nextId = 1
    /\ published_count = 0
    /\ failed_count = 0
    /\ failures = 0
    /\ written = {}
    /\ base = <<>>
    /\ pubs = <<>>
    /\ payloads = <<>>

\* connect(): the Redis client is created, the flush worker task starts
Connect ==
    /\ ~ev_running
    /\ conn = "none"
    /\ conn' = "open"
    /\ ev_running' = TRUE
    /\ worker' = [pc |-> "sleep", batch |-> <<>>]
    /\ UNCHANGED <<buffer, capScheduled, capInflight, disc, nextId,
                   published_count, failed_count, failures, written, base,
                   pubs>>
    /\ UNCHANGED <<payloads, notEvents>>

\* mutant: the event is written to the stream by the publish call itself
Publish_WriteThrough(payload) ==
    /\ nextId <= MaxEvents
    /\ RedisDataRaises(payload) => Unserializable < MaxUnserializable
    /\ nextId' = nextId + 1
    /\ payloads' = Append(payloads, payload)
    /\ IF ~ev_running
       THEN UNCHANGED <<published_count, written>>
       ELSE /\ written' = written \cup {nextId}
            /\ published_count' = published_count + 1
    /\ UNCHANGED <<buffer, capScheduled, pubs, ev_running, conn, worker,
                   capInflight, disc, failed_count, failures, base>>
    /\ UNCHANGED notEvents

\* mutant: a full buffer waits for the worker's timer
Publish_TimerOnly(payload) ==
    /\ nextId <= MaxEvents
    /\ RedisDataRaises(payload) => Unserializable < MaxUnserializable
    /\ nextId' = nextId + 1
    /\ payloads' = Append(payloads, payload)
    /\ IF ~ev_running
       THEN UNCHANGED <<buffer, pubs>>
       ELSE /\ buffer' = DequeAppend(buffer, nextId)
            /\ pubs' = Append(pubs, nextId)
    /\ UNCHANGED <<ev_running, conn, worker, capScheduled, capInflight, disc,
                   published_count, failed_count, failures, written, base>>
    /\ UNCHANGED notEvents

\* _publish_event(stream, data), reached from every publish method
PublishEvent(payload) ==
    /\ nextId <= MaxEvents
    /\ RedisDataRaises(payload) => Unserializable < MaxUnserializable
    /\ nextId' = nextId + 1
    /\ payloads' = Append(payloads, payload)
    /\ IF ~ev_running
       THEN UNCHANGED <<buffer, capScheduled, pubs>>
       ELSE /\ buffer' = DequeAppend(buffer, nextId)
            /\ pubs' = Append(pubs, nextId)
            /\ capScheduled' = IF Len(buffer') >= event_buffer_size
                               THEN capScheduled + 1 ELSE capScheduled
    /\ UNCHANGED <<ev_running, conn, worker, capInflight, disc,
                   published_count, failed_count, failures, written, base>>

\* publish_user_feedback / publish_trust_event called by the application:
\* the payload is built and handed to _publish_event(stream, data)
Publish(payload) ==
    /\ PublishEvent(payload)
    /\ UNCHANGED notEvents

\* the failed metric is followed up to this value
FailedCap == MaxFailures * event_buffer_size

\* the successful end of "await pipe.execute()" for the batch
ExecOk(batch) ==
    /\ ~PipelineRaises(batch)
    /\ published_count' = published_count + Len(batch)
    /\ written' = written \cup SeqSet(batch)
    /\ UNCHANGED <<buffer, failed_count, failures, base, pubs>>

\* filling the pipeline or pipe.execute() raises: count the failure and put
\* the events back
ExecFails(batch) ==
    /\ PipelineRaises(batch) \/ failures < MaxFailures
    /\ failures' = IF PipelineRaises(batch) THEN failures ELSE failures + 1
    /\ failed_count' = IF failed_count + Len(batch) < FailedCap
                       THEN failed_count + Len(batch) ELSE FailedCap
    /\ buffer' = Requeue(buffer, batch)
    /\ base' = buffer'
    /\ pubs' = <<>>
    /\ UNCHANGED <<published_count, written>>

\* "while self._running" after a flush of the worker
WorkerLoop == IF ev_running THEN [pc |-> "sleep", batch |-> <<>>]
              ELSE [pc |-> "done", batch |-> <<>>]

\* the worker's sleep ends and it enters _flush_buffer
WorkerTimer ==
    /\ worker.pc = "sleep"
    /\ IF buffer = <<>>
       THEN /\ worker' = WorkerLoop
            /\ UNCHANGED <<buffer, base, pubs>>
       ELSE /\ worker' = [pc |-> "exec", batch |-> buffer]
            /\ buffer' = <<>>
            /\ base' = <<>>
            /\ pubs' = <<>>
    /\ UNCHANGED <<ev_running, conn, capScheduled, capInflight, disc, nextId,
                   published_count, failed_count, failures, written>>
    /\ UNCHANGED <<payloads, notEvents>>

WorkerExecOk ==
    /\ worker.pc = "exec"
    /\ ExecOk(worker.batch)
    /\ worker' = WorkerLoop
    /\ UNCHANGED <<ev_running, conn, capScheduled, capInflight, disc, nextId>>
    /\ UNCHANGED <<payloads, notEvents>>

WorkerExecFails ==
    /\ worker.pc = "exec"
    /\ ExecFails(worker.batch)
    /\ worker' = WorkerLoop
    /\ UNCHANGED <<ev_running, conn, capScheduled, capInflight, disc, nextId>>
    /\ UNCHANGED <<payloads, notEvents>>

\* a flush task created by _publish_event starts running _flush_buffer
CapStart ==
    /\ capScheduled > 0
    /\ capScheduled' = capScheduled - 1
    /\ IF buffer = <<>>
       THEN UNCHANGED <<buffer, capInflight, base, pubs>>
       ELSE /\ capInflight' = capInflight \cup {buffer}
            /\ buffer' = <<>>
            /\ base' = <<>>
            /\ pubs' = <<>>
    /\ UNCHANGED <<ev_running, conn, worker, disc, nextId, published_count,
                   failed_count, failures, written>>
    /\ UNCHANGED <<payloads, notEvents>>

CapExecOk(batch) ==
    /\ batch \in capInflight
    /\ ExecOk(batch)
    /\ capInflight' = capInflight \ {batch}
    /\ UNCHANGED <<ev_running, conn, worker, capScheduled, disc, nextId>>
    /\ UNCHANGED <<payloads, notEvents>>

CapExecFails(batch) ==
    /\ batch \in capInflight
    /\ ExecFails(batch)
    /\ capInflight' = capInflight \ {batch}
    /\ UNCHANGED <<ev_running, conn, worker, capScheduled, disc, nextId>>
    /\ UNCHANGED <<payloads, notEvents>>

\* self._flush_task.cancel(): the worker gets CancelledError at its await
CancelWorker == IF worker.pc \in {"sleep", "exec"}
                THEN [worker EXCEPT !.pc = "cancelled"]
                ELSE worker

\* disconnect() up to its first suspension
Disconnect ==
    /\ ev_running
    /\ disc.pc = "idle"
    /\ ev_running' = FALSE
    /\ IF buffer = <<>>
       THEN /\ disc' = [pc |-> "joining", batch |-> <<>>]
            /\ worker' = CancelWorker
            /\ UNCHANGED <<buffer, base, pubs>>
       ELSE /\ disc' = [pc |-> "exec", batch |-> buffer]
            /\ buffer' = <<>>
            /\ base' = <<>>
            /\ pubs' = <<>>
            /\ UNCHANGED worker
    /\ UNCHANGED <<conn, capScheduled, capInflight, nextId, published_count,
                   failed_count, failures, written>>
    /\ UNCHANGED <<payloads, notEvents>>

DiscExecOk ==
    /\ disc.pc = "exec"
    /\ ExecOk(disc.batch)
    /\ disc' = [pc |-> "joining", batch |-> <<>>]
    /\ worker' = CancelWorker
    /\ UNCHANGED <<ev_running, conn, capScheduled, capInflight, nextId>>
    /\ UNCHANGED <<payloads, notEvents>>

DiscExecFails ==
    /\ disc.pc = "exec"
    /\ ExecFails(disc.batch)
    /\ disc' = [pc |-> "joining", batch |-> <<>>]
    /\ worker' = CancelWorker
    /\ UNCHANGED <<ev_running, conn, capScheduled, capInflight, nextId>>
    /\ UNCHANGED <<payloads, notEvents>>

\* CancelledError reaches the worker; a batch write it was awaiting is
\* abandoned, whether or not the substrate had already applied it
WorkerCancelled(applied) ==
    /\ worker.pc = "cancelled"
    /\ worker' = [pc |-> "done", batch |-> <<>>]
    /\ written' = IF applied THEN written \cup SeqSet(worker.batch)
                  ELSE written
    /\ UNCHANGED <<buffer, ev_running, conn, capScheduled, capInflight, disc,
                   nextId, published_count, failed_count, failures, base,
                   pubs>>
    /\ UNCHANGED <<payloads, notEvents>>

\* "await self._flush_task" returns, then "await self._redis.close()"
DiscClose ==
    /\ disc.pc = "joining"
    /\ worker.pc = "done"
    /\ disc' = [pc |-> "done", batch |-> <<>>]
    /\ conn' = "closed"
    /\ UNCHANGED <<buffer, ev_running, worker, capScheduled, capInflight,
                   nextId, published_count, failed_count, failures, written,
                   base, pubs>>
    /\ UNCHANGED <<payloads, notEvents>>

\* ------------------------------------------------------------------------
\* Governance wrappers: sdk.governed() and governed_node
\* ------------------------------------------------------------------------
\* what the wrapped function does when it is called
FuncOutcomes == {"result", "raises"}

\* mutant: the function runs whatever the evaluation says
Governed_CallsAnyway(kind, context, behaves) ==
    /\ gcall.pc = "idle"
    /\ LET r == evaluate(policies, context)
       IN  /\ gcall' =
                 [pc |-> "returned", wrapper |-> "governed", kind |-> kind,
                  evaluated |-> kind = "async", calls |-> 1,
                  event |-> IF kind = "sync" THEN NULL
                            ELSE IF behaves = "result" THEN "task_completed"
                            ELSE "task_failed",
                  outcome |-> behaves]
           /\ IF kind = "sync"
              THEN UNCHANGED <<policyVars, eventVars>>
              ELSE /\ evalCtx' = context
                   /\ scanned' = policies
                   /\ expected' = loaded
                   /\ evalResult' = r
                   /\ UNCHANGED <<policies, loaded>>
                   /\ PublishEvent(TrustPayload)
    /\ UNCHANGED <<syncVars, rpcVars, cacheVars, lifeVars, chanVars, sdk>>

\* the call of a function decorated with sdk.governed(): sync_wrapper for a
\* plain function, _execute_with_governance for a coroutine function
Governed(kind, context, behaves) ==
    /\ gcall.pc = "idle"
    /\ IF kind = "sync"
       THEN /\ gcall' = [pc |-> "returned", wrapper |-> "governed",
                         kind |-> kind, evaluated |-> FALSE, calls |-> 1,
                         event |-> NULL, outcome |-> behaves]
            /\ UNCHANGED <<policyVars, eventVars>>
       ELSE LET r == evaluate(policies, context)
                violation == r.kind = "PolicyViolationError"
            IN  /\ gcall' =
                      [pc |-> "returned", wrapper |-> "governed",
                       kind |-> kind, evaluated |-> TRUE,
                       calls |-> IF violation THEN 0 ELSE 1,
                       event |-> IF violation THEN "policy_violation"
                                 ELSE IF behaves = "result"
                                      THEN "task_completed"
                                      ELSE "task_failed",
                       outcome |-> IF violation THEN "PolicyViolationError"
                                   ELSE behaves]
                /\ evalCtx' = context
                /\ scanned' = policies
                /\ expected' = loaded
                /\ evalResult' = r
                /\ UNCHANGED <<policies, loaded>>
                /\ PublishEvent(TrustPayload)
    /\ UNCHANGED <<syncVars, rpcVars, cacheVars, lifeVars, chanVars, sdk>>

\* the call of a node wrapped with governed_node; available: get_agion_sdk()
\* returns the SDK
GovernedNode(available, context, behaves) ==
    /\ gcall.pc = "idle"
    /\ LET r == evaluate(policies, context)
           denied == available /\ r.kind = "return" /\ r.decision = DENY
       IN  /\ gcall' =
                 [pc |-> "returned", wrapper |-> "node", kind |-> "async",
                  evaluated |-> available,
                  calls |-> IF denied THEN 0 ELSE 1,
                  event |-> IF ~available THEN NULL
                            ELSE IF denied THEN "policy_violation"
                            ELSE IF behaves = "result" THEN "task_completed"
                            ELSE "task_failed",
                  outcome |-> IF denied THEN "access_denied"
                              ELSE IF behaves = "result" THEN "result"
                              ELSE "error_state"]
           /\ IF available
              THEN /\ evalCtx' = context
                   /\ scanned' = policies
                   /\ expected' = loaded
                   /\ evalResult' = r
                   /\ UNCHANGED <<policies, loaded>>
                   /\ PublishEvent(TrustPayload)
              ELSE UNCHANGED <<policyVars, eventVars>>
    /\ UNCHANGED <<syncVars, rpcVars, cacheVars, lifeVars, chanVars, sdk>>

\* ------------------------------------------------------------------------
\* AgionSDK: initialize() and disconnect()
\* ------------------------------------------------------------------------
\* no governed call has been made; the SDK is constructed, not initialized
SdkIdle ==
    /\ gcall = [pc |-> "idle", wrapper |-> NULL, kind |-> NULL,
                evaluated |-> FALSE, calls |-> 0, event |-> NULL,
                outcome |-> NULL]
    /\ sdk = [init_pc |-> "idle", disc_pc |-> "idle", initialized |-> FALSE,
              http_session |-> "none"]

\* initialize() up to "await self.event_client.connect()"
SdkInitialize ==
    /\ sdk.init_pc = "idle"
    /\ ~sdk.initialized
    /\ sdk' = [sdk EXCEPT !.init_pc = "running", !.http_session = "open"]
    /\ UNCHANGED <<policyVars, syncVars, eventVars, rpcVars, cacheVars,
                   lifeVars, chanVars, gcall>>

\* PolicySyncWorker.start() raised PolicySyncError: initialize() raises
\* InitializationError and _initialized stays False
SdkInitializeFails ==
    /\ sdk.init_pc = "running"
    /\ start_pc = "failed"
    /\ sdk' = [sdk EXCEPT !.init_pc = "failed"]
    /\ UNCHANGED <<policyVars, syncVars, eventVars, rpcVars, cacheVars,
                   lifeVars, chanVars, gcall>>

\* start() returned: the agent is registered (a failure there is only
\* logged) and _initialized is set
SdkInitializeReturns ==
    /\ sdk.init_pc = "running"
    /\ start_pc = "done"
    /\ sdk' = [sdk EXCEPT !.init_pc = "done", !.initialized = TRUE]
    /\ UNCHANGED <<policyVars, syncVars, eventVars, rpcVars, cacheVars,
                   lifeVars, chanVars, gcall>>

\* disconnect() / shutdown() after initialize() has ended: it returns at
\* once unless _initialized is set, else it goes on to stop the worker
SdkDisconnect ==
    /\ sdk.init_pc \in {"failed", "done"}
    /\ sdk.disc_pc = "idle"
    /\ sdk' = [sdk EXCEPT !.disc_pc = IF sdk.initialized THEN "stopping"
                                      ELSE "done"]
    /\ UNCHANGED <<policyVars, syncVars, eventVars, rpcVars, cacheVars,
                   lifeVars, chanVars, gcall>>

\* the event client has disconnected: the HTTP session is closed and
\* _initialized is reset
SdkDisconnectReturns ==
    /\ sdk.disc_pc = "stopping"
    /\ disc.pc = "done"
    /\ sdk' = [sdk EXCEPT !.disc_pc = "done", !.http_session = "closed",
                          !.initialized = FALSE]
    /\ UNCHANGED <<policyVars, syncVars, eventVars, rpcVars, cacheVars,
                   lifeVars, chanVars, gcall>>

\* ------------------------------------------------------------------------
\* GovernanceClientRedis: request/response over Redis streams
\* ------------------------------------------------------------------------
Calls == {"c1", "c2"}
CallKinds == {"permission_check", "result_validation"}
ReadCount == 10

\* decisions the governance service answers with
ServiceDecisions(kind) ==
    IF kind = "permission_check" THEN {"ALLOW", "REQUIRE_APPROVAL"}
    ELSE {"ACCEPT", "REJECT"}

NoRpcResult == [kind |-> "none", decision |-> NULL, correlation_id |-> NULL]

IdleCall == [pc |-> "idle", kind |-> NULL, elapsed |-> 0, batch |-> <<>>,
             result |-> NoRpcResult]

RpcIdle ==
    /\ rpc_redis = FALSE
    /\ call = [c \in Calls |-> IdleCall]
    /\ requests = {}
    /\ responses = <<>>
    /\ group = FALSE
    /\ lastDelivered = 0
    /\ pel = {}
    /\ seen = [c \in Calls |-> {}]

\* mutant: a call that got no answer is let through
SafeDefault_FailOpen(kind) ==
    [kind |-> "default",
     decision |-> IF kind = "permission_check" THEN "ALLOW" ELSE "ACCEPT",
     correlation_id |-> NULL]

\* the dict returned on timeout and by the except clauses
SafeDefault(kind) ==
    [kind |-> "default",
     decision |-> IF kind = "permission_check" THEN "DENY"
                  ELSE "FLAG_FOR_REVIEW",
     correlation_id |-> NULL]

\* check_permission / validate_result return the safe default
ReturnDefault(c) ==
    [call[c] EXCEPT !.pc = "returned", !.batch = <<>>,
                    !.result = SafeDefault(call[c].kind)]

\* mutant: the first record read is taken as the answer
Matches_Any(payload, c) == TRUE

\* payload.get("correlation_id") == correlation_id
Matches(payload, c) == payload.correlation_id = c

\* mutant: the deadline is tested after the read instead of before it
LoopCheck_ReadAtDeadline(c, elapsed) ==
    IF elapsed <= TimeoutSlices
    THEN [call[c] EXCEPT !.pc = "read", !.elapsed = elapsed, !.batch = <<>>]
    ELSE [ReturnDefault(c) EXCEPT !.elapsed = elapsed]

\* top of the while loop: the next xreadgroup, or None after the deadline
LoopCheck(c, elapsed) ==
    IF elapsed < TimeoutSlices
    THEN [call[c] EXCEPT !.pc = "read", !.elapsed = elapsed, !.batch = <<>>]
    ELSE [ReturnDefault(c) EXCEPT !.elapsed = elapsed]

\* the for loop over the entries up to its next await
Advance(c, batch) ==
    IF batch = <<>> THEN LoopCheck(c, call[c].elapsed)
    ELSE IF responses[Head(batch)].bad
         THEN [call[c] EXCEPT !.pc = "sleep", !.batch = <<>>]
         ELSE [call[c] EXCEPT !.pc = "xack", !.batch = batch]

\* check_permission / validate_result up to the first await
RpcStart(c, kind) ==
    /\ call[c].pc = "idle"
    /\ call' = [call EXCEPT ![c] = [IdleCall EXCEPT
                    !.kind = kind,
                    !.pc = IF rpc_redis THEN "xadd" ELSE "connect"]]
    /\ UNCHANGED <<rpc_redis, requests, responses, group, lastDelivered, pel,
                   seen>>
    /\ UNCHANGED notRpc

\* redis.from_url succeeds
RpcConnectOk(c) ==
    /\ call[c].pc = "connect"
    /\ rpc_redis' = TRUE
    /\ call' = [call EXCEPT ![c].pc = "xadd"]
    /\ UNCHANGED <<requests, responses, group, lastDelivered, pel, seen>>
    /\ UNCHANGED notRpc

\* connect, xadd or xgroup_create raises ConnectionError
RpcStepFails(c) ==
    /\ call[c].pc \in {"connect", "xadd", "group"}
    /\ call' = [call EXCEPT ![c] = ReturnDefault(c)]
    /\ UNCHANGED <<rpc_redis, requests, responses, group, lastDelivered, pel,
                   seen>>
    /\ UNCHANGED notRpc

\* the request is appended to the request stream
RpcXaddOk(c) ==
    /\ call[c].pc = "xadd"
    /\ requests' = requests \cup {c}
    /\ call' = [call EXCEPT ![c].pc = "group"]
    /\ UNCHANGED <<rpc_redis, responses, group, lastDelivered, pel, seen>>
    /\ UNCHANGED notRpc

\* xgroup_create returns, or raises ResponseError (group exists)
RpcGroupOk(c) ==
    /\ call[c].pc = "group"
    /\ group' = TRUE
    /\ call' = [call EXCEPT ![c] = LoopCheck(c, 0)]
    /\ UNCHANGED <<rpc_redis, requests, responses, lastDelivered, pel, seen>>
    /\ UNCHANGED notRpc

Min(a, b) == IF a < b THEN a ELSE b

\* xreadgroup returns the new records, at most ReadCount of them
RpcReadOk(c) ==
    /\ call[c].pc = "read"
    /\ group
    /\ lastDelivered < Len(responses)
    /\ LET upto == Min(Len(responses), lastDelivered + ReadCount)
           idx == [i \in 1..(upto - lastDelivered) |-> lastDelivered + i]
       IN  /\ lastDelivered' = upto
           /\ pel' = pel \cup {[id |-> idx[i], consumer |-> c] :
                                  i \in 1..Len(idx)}
           /\ seen' = [seen EXCEPT ![c] = @ \cup {idx[i] : i \in 1..Len(idx)}]
           /\ call' = [call EXCEPT ![c] = Advance(c, idx)]
    /\ UNCHANGED <<rpc_redis, requests, responses, group>>
    /\ UNCHANGED notRpc

\* xreadgroup blocks for its slice and returns nothing
RpcReadEmpty(c) ==
    /\ call[c].pc = "read"
    /\ group
    /\ lastDelivered = Len(responses)
    /\ call' = [call EXCEPT ![c] = LoopCheck(c, call[c].elapsed + 1)]
    /\ UNCHANGED <<rpc_redis, requests, responses, group, lastDelivered, pel,
                   seen>>
    /\ UNCHANGED notRpc

\* xreadgroup or xack raises RedisError: print, then sleep
RpcReadOrAckFails(c) ==
    /\ call[c].pc \in {"read", "xack"}
    /\ call' = [call EXCEPT ![c] = [@ EXCEPT !.pc = "sleep", !.batch = <<>>]]
    /\ UNCHANGED <<rpc_redis, requests, responses, group, lastDelivered, pel,
                   seen>>
    /\ UNCHANGED notRpc

\* asyncio.sleep(0.1) in an except clause of the loop ends
RpcSleepDone(c) ==
    /\ call[c].pc = "sleep"
    /\ call' = [call EXCEPT ![c] = LoopCheck(c, call[c].elapsed + 1)]
    /\ UNCHANGED <<rpc_redis, requests, responses, group, lastDelivered, pel,
                   seen>>
    /\ UNCHANGED notRpc

\* xack of the entry at hand returns
RpcXackOk(c) ==
    /\ call[c].pc = "xack"
    /\ LET m == Head(call[c].batch)
           payload == responses[m]
       IN  /\ pel' = {e \in pel : e.id # m}
           /\ call' = [call EXCEPT ![c] =
                 IF Matches(payload, c)
                 THEN [call[c] EXCEPT
                         !.pc = "returned", !.batch = <<>>,
                         !.result = [kind |-> "response",
                                     decision |-> payload.decision,
                                     correlation_id |->
                                         payload.correlation_id]]
                 ELSE Advance(c, Tail(call[c].batch))]
    /\ UNCHANGED <<rpc_redis, requests, responses, group, lastDelivered,
                   seen>>
    /\ UNCHANGED notRpc

\* the governance service answers a request
ServiceResponds(c, decision) ==
    /\ c \in requests
    /\ \A i \in 1..Len(responses) : responses[i].correlation_id # c
    /\ responses' = Append(responses, [correlation_id |-> c,
                                       decision |-> decision, bad |-> FALSE])
    /\ UNCHANGED <<rpc_redis, call, requests, group, lastDelivered, pel, seen>>
    /\ UNCHANGED notRpc

\* a record whose payload is not JSON
ServiceJunk ==
    /\ Cardinality({i \in 1..Len(responses) : responses[i].bad}) < MaxJunk
    /\ responses' = Append(responses, [correlation_id |-> NULL,
                                       decision |-> NULL, bad |-> TRUE])
    /\ UNCHANGED <<rpc_redis, call, requests, group, lastDelivered, pel, seen>>
    /\ UNCHANGED notRpc

\* ------------------------------------------------------------------------
\* GovernanceClient.check_permission and its L1 cache
\* ------------------------------------------------------------------------
cache_ttl_approved == 30
cache_ttl_denied == 5
cache_max_size == 2

PCallers == {"p1", "p2"}
\* identifiers are strings, modelled as sequences of characters
PermUse == <<"u", "s", "e">>
Triples == {[actor |-> <<"a">>, resource |-> <<"r">>,
             permission_type |-> PermUse],
            [actor |-> <<"b">>, resource |-> <<"r">>,
             permission_type |-> PermUse],
            [actor |-> <<"a">>, resource |-> <<"s">>,
             permission_type |-> PermUse]}
\* identifiers that contain the separator, as in "langgraph-v2:chart_agent"
ColonTriples == {[actor |-> <<"a", ":", "b">>, resource |-> <<"r">>,
                  permission_type |-> PermUse],
                 [actor |-> <<"a">>, resource |-> <<"b", ":", "r">>,
                  permission_type |-> PermUse],
                 [actor |-> <<"a">>, resource |-> <<"r">>,
                  permission_type |-> PermUse]}
ClockSteps == {10, 20}

\* f"perm:{actor_id}:{resource_id}:{permission_type}"
cache_key(t) ==
    <<"p", "e", "r", "m", ":">> \o t.actor \o <<":">> \o t.resource
        \o <<":">> \o t.permission_type

NoKey == <<>>
NoRequest == [actor |-> <<>>, resource |-> <<>>, permission_type |-> <<>>]
IdlePCall == [pc |-> "idle", key |-> NoKey, request |-> NoRequest,
              source |-> NULL, allowed |-> FALSE]

CacheIdle ==
    /\ pcache = <<>>
    /\ pcall = [p \in PCallers |-> IdlePCall]
    /\ cnow = 0

RECURSIVE CacheIndex(_, _, _)
CacheIndex(d, key, i) ==
    IF i > Len(d) THEN 0
    ELSE IF d[i].key = key THEN i ELSE CacheIndex(d, key, i + 1)

\* mutant: one TTL for every result
TtlOf_Symmetric(allowed) == cache_ttl_approved

\* self.cache_ttl_approved if cached_result.allowed else self.cache_ttl_denied
TtlOf(allowed) == IF allowed THEN cache_ttl_approved ELSE cache_ttl_denied

\* "cache_key in self._permission_cache" and "age < ttl"
CacheHit(d, key, t) ==
    LET i == CacheIndex(d, key, 1)
    IN  /\ i # 0
        /\ t - d[i].cached_at < TtlOf(d[i].allowed)

\* mutant: a hit restarts the entry's TTL countdown
MoveToEnd_Sliding(d, key) ==
    LET i == CacheIndex(d, key, 1)
    IN  SubSeq(d, 1, i - 1) \o SubSeq(d, i + 1, Len(d))
            \o <<[d[i] EXCEPT !.cached_at = cnow]>>

\* OrderedDict.move_to_end(key)
MoveToEnd(d, key) ==
    LET i == CacheIndex(d, key, 1)
    IN  SubSeq(d, 1, i - 1) \o SubSeq(d, i + 1, Len(d)) \o <<d[i]>>

\* popitem(last=False) when at capacity, then d[key] = (result, now); the
\* result is the service's answer to the request of the call
CacheInsert(d, key, request, allowed, t) ==
    LET d1 == IF Len(d) >= cache_max_size THEN Tail(d) ELSE d
        i == CacheIndex(d1, key, 1)
        e == [key |-> key, request |-> request, allowed |-> allowed,
              cached_at |-> t]
    IN  IF i = 0 THEN Append(d1, e) ELSE [d1 EXCEPT ![i] = e]

\* check_permission up to its return from the cache or its first await
CheckPermission(p, t) ==
    /\ pcall[p].pc = "idle"
    /\ LET key == cache_key(t)
       IN  IF CacheHit(pcache, key, cnow)
           THEN /\ pcache' = MoveToEnd(pcache, key)
                /\ pcall' = [pcall EXCEPT ![p] =
                      [pc |-> "returned", key |-> key, request |-> t,
                       source |-> "cache",
                       allowed |->
                           pcache[CacheIndex(pcache, key, 1)].allowed]]
           ELSE /\ pcall' = [pcall EXCEPT ![p] =
                      [pc |-> "post", key |-> key, request |-> t,
                       source |-> NULL,
                       allowed |-> FALSE]]
                /\ UNCHANGED pcache
    /\ UNCHANGED cnow
    /\ UNCHANGED notCache

\* the service answers 200: the result is cached and returned
ApiReturns(p, allowed) ==
    /\ pcall[p].pc = "post"
    /\ pcache' = CacheInsert(pcache, pcall[p].key, pcall[p].request, allowed,
                            cnow)
    /\ pcall' = [pcall EXCEPT ![p] = [@ EXCEPT !.pc = "returned",
                                               !.source = "api",
                                               !.allowed = allowed]]
    /\ UNCHANGED cnow
    /\ UNCHANGED notCache

\* another status or a connection error: the call raises
ApiFails(p) ==
    /\ pcall[p].pc = "post"
    /\ pcall' = [pcall EXCEPT ![p] = [@ EXCEPT !.pc = "returned",
                                               !.source = "error"]]
    /\ UNCHANGED <<pcache, cnow>>
    /\ UNCHANGED notCache

\* the caller takes the result or the exception; it may call again
CallerResumes(p) ==
    /\ pcall[p].pc = "returned"
    /\ pcall' = [pcall EXCEPT ![p] = IdlePCall]
    /\ UNCHANGED <<pcache, cnow>>
    /\ UNCHANGED notCache

ClockAdvance(d) ==
    /\ cnow + d <= MaxClock
    /\ cnow' = cnow + d
    /\ UNCHANGED <<pcache, pcall>>
    /\ UNCHANGED notCache

vars == <<policyVars, syncVars, eventVars, rpcVars, cacheVars, lifeVars,
          chanVars, sdkVars>>

\* ------------------------------------------------------------------------
\* SpecEval: evaluate over every bounded rule set and context
\* ------------------------------------------------------------------------
InitEval ==
    /\ \E n \in 0..MaxRules : \E bs \in [1..n -> RuleBody] :
          policies = RuleList(n, bs)
    /\ evalCtx = NoContext
    /\ evalResult = NoResult
    /\ scanned = <<>>
    /\ loaded = policies
    /\ expected = policies
    /\ SyncIdle
    /\ EventsIdle
    /\ RpcIdle
    /\ CacheIdle
    /\ LifeIdle
    /\ SdkIdle

NextEval == \E context \in PolicyContext : Evaluate(context)

SpecEval == InitEval /\ [][NextEval]_vars

\* ------------------------------------------------------------------------
\* SpecGoverned: one call of a governed function or node over bounded sets
\* of rules that match the action "delete", with the event client connected
\* or not
\* ------------------------------------------------------------------------
GovernedBodies ==
    {b \in RuleBody : /\ b.priority = 1
                      /\ b.expression = ExprDelete
                      /\ b.enforcement \in {SOFT, HARD}}

InitGoverned ==
    /\ \E n \in 0..MaxRules : \E bs \in [1..n -> GovernedBodies] :
          policies = RuleList(n, bs)
    /\ evalCtx = NoContext
    /\ evalResult = NoResult
    /\ scanned = <<>>
    /\ loaded = policies
    /\ expected = policies
    /\ SyncIdle
    /\ EventsIdle
    /\ RpcIdle
    /\ CacheIdle
    /\ LifeIdle
    /\ SdkIdle

NextGoverned ==
    \/ Connect
    \/ \E kind \in {"async", "sync"}, context \in PolicyContext,
          behaves \in FuncOutcomes : Governed(kind, context, behaves)
    \/ \E available \in BOOLEAN, context \in PolicyContext,
          behaves \in FuncOutcomes : GovernedNode(available, context, behaves)

SpecGoverned == InitGoverned /\ [][NextGoverned]_vars

\* ------------------------------------------------------------------------
\* SpecSync: refreshes of three callers interleaved with evaluate calls
\* ------------------------------------------------------------------------
InitSync ==
    /\ policies = <<>>
    /\ evalCtx = NoContext
    /\ evalResult = NoResult
    /\ scanned = <<>>
    /\ loaded = <<>>
    /\ expected = <<>>
    /\ SyncIdle
    /\ EventsIdle
    /\ RpcIdle
    /\ CacheIdle
    /\ LifeIdle
    /\ SdkIdle

NextSync ==
    \/ \E c \in Callers : SyncStart(c)
    \/ \E c \in Callers : SyncGetFails(c)
    \/ \E c \in Callers, st \in HttpStatus, d \in UpstreamData :
          SyncGetResponds(c, st, d)
    \/ \E c \in Callers : SyncBodyFails(c)
    \/ \E c \in Callers : SyncBodyRead(c)
    \/ \E context \in PolicyContext : Evaluate(context)
    \/ Tick


SpecSync == InitSync /\ [][NextSync]_vars

\* ------------------------------------------------------------------------
\* SpecLife: start() and stop() of the sync worker, its two loops and the
\* refreshes they run
\* ------------------------------------------------------------------------
NextLife ==
    \/ Start
    \/ StartConnectFails
    \/ StartConnected
    \/ StartReturns
    \/ \E message \in Messages : ChannelDelivers(message)
    \/ PushNotified
    \/ PollTimer
    \/ PollWakes
    \/ Stop
    \/ PubsubCancelled
    \/ StopJoinedPubsub
    \/ PollCancelled
    \/ StopJoinedSync
    \/ StopRedisClosed
    \/ StopHttpClosed
    \/ \E c \in Callers : RefreshStep(c)
    \/ Tick

SpecLife == InitSync /\ [][NextLife]_vars

\* ------------------------------------------------------------------------
\* SpecUpstream: the sync worker against a gateway whose policy set changes
\* from version to version
\* ------------------------------------------------------------------------
NextUpstream ==
    \/ Start
    \/ StartConnectFails
    \/ StartConnected
    \/ StartReturns
    \/ \E message \in Messages : ChannelDelivers(message)
    \/ PushNotified
    \/ PollTimer
    \/ PollWakes
    \/ Stop
    \/ PubsubCancelled
    \/ StopJoinedPubsub
    \/ PollCancelled
    \/ StopJoinedSync
    \/ StopRedisClosed
    \/ StopHttpClosed
    \/ \E c \in Callers : UpstreamRefreshStep(c)
    \/ UpstreamChanges
    \/ Tick

SpecUpstream == InitSync /\ [][NextUpstream]_vars

\* ------------------------------------------------------------------------
\* SpecSteady: the sync worker against a gateway whose policy set stays the
\* same, notified by well-formed messages
\* ------------------------------------------------------------------------
PolicyUpdated == [type |-> "message", data |-> "json_object"]

NextSteady ==
    \/ Start
    \/ StartConnectFails
    \/ StartConnected
    \/ StartReturns
    \/ ChannelDelivers(PolicyUpdated)
    \/ PushNotified
    \/ PollTimer
    \/ PollWakes
    \/ Stop
    \/ PubsubCancelled
    \/ StopJoinedPubsub
    \/ PollCancelled
    \/ StopJoinedSync
    \/ StopRedisClosed
    \/ StopHttpClosed
    \/ \E c \in Callers : UpstreamRefreshStep(c)
    \/ Tick

SpecSteady == InitSync /\ [][NextSteady]_vars

\* ------------------------------------------------------------------------
\* SpecDegraded: the sync worker when the push listener can end with an
\* error, nothing is published on the channel and the gateway's policy set
\* changes
\* ------------------------------------------------------------------------
NextDegraded ==
    \/ Start
    \/ StartConnectFails
    \/ StartConnected
    \/ StartReturns
    \/ PushFails
    \/ PollTimer
    \/ PollWakes
    \/ Stop
    \/ PubsubCancelled
    \/ StopJoinedPubsub
    \/ PollCancelled
    \/ StopJoinedSync
    \/ StopRedisClosed
    \/ StopHttpClosed
    \/ \E c \in Callers : UpstreamRefreshStep(c)
    \/ UpstreamChanges
    \/ Tick

SpecDegraded == InitSync /\ [][NextDegraded]_vars

\* time passes, the poll loop's sleep ends and the task resumes, and every
\* HTTP exchange in flight comes to an end
SpecDegradedFair ==
    /\ SpecDegraded
    /\ WF_vars(Tick)
    /\ WF_vars(PollTimer)
    /\ WF_vars(PollWakes)
    /\ \A c \in Callers : WF_vars(UpstreamRefreshStep(c))

\* ------------------------------------------------------------------------
\* SpecEvents: one EventClient from connect() to disconnect()
\* ------------------------------------------------------------------------
InitEvents ==
    /\ policies = <<>>
    /\ evalCtx = NoContext
    /\ evalResult = NoResult
    /\ scanned = <<>>
    /\ loaded = <<>>
    /\ expected = <<>>
    /\ SyncIdle
    /\ EventsIdle
    /\ RpcIdle
    /\ CacheIdle
    /\ LifeIdle
    /\ SdkIdle

NextEvents ==
    \/ Connect
    \/ \E payload \in Payloads : Publish(payload)
    \/ WorkerTimer
    \/ WorkerExecOk
    \/ WorkerExecFails
    \/ CapStart
    \/ \E batch \in capInflight : CapExecOk(batch)
    \/ \E batch \in capInflight : CapExecFails(batch)
    \/ Disconnect
    \/ DiscExecOk
    \/ DiscExecFails
    \/ \E applied \in BOOLEAN : WorkerCancelled(applied)
    \/ DiscClose

SpecEvents == InitEvents /\ [][NextEvents]_vars

\* the worker's sleep ends, flush tasks get to run and batch writes end
SpecEventsFair ==
    /\ SpecEvents
    /\ WF_vars(WorkerTimer)
    /\ WF_vars(WorkerExecOk \/ WorkerExecFails)
    /\ WF_vars(CapStart)
    /\ WF_vars(\E batch \in capInflight :
                  CapExecOk(batch) \/ CapExecFails(batch))

\* ------------------------------------------------------------------------
\* SpecSdk: initialize() of an AgionSDK with policy sync enabled, followed
\* by disconnect(); the calls of the SDK into its components are the
\* components' own actions
\* ------------------------------------------------------------------------
NextSdk ==
    \/ SdkInitialize
    \/ sdk.init_pc = "running" /\ Connect
    \/ sdk.init_pc = "running" /\ ev_running /\ Start
    \/ StartConnectFails
    \/ StartConnected
    \/ StartReturns
    \/ SdkInitializeFails
    \/ SdkInitializeReturns
    \/ PollTimer
    \/ PollWakes
    \/ \E c \in Callers : UpstreamRefreshStep(c)
    \/ Tick
    \/ WorkerTimer
    \/ SdkDisconnect
    \/ sdk.disc_pc = "stopping" /\ Stop
    \/ PubsubCancelled
    \/ StopJoinedPubsub
    \/ PollCancelled
    \/ StopJoinedSync
    \/ StopRedisClosed
    \/ StopHttpClosed
    \/ sdk.disc_pc = "stopping" /\ stop_pc = "done" /\ Disconnect
    \/ \E applied \in BOOLEAN : WorkerCancelled(applied)
    \/ DiscClose
    \/ SdkDisconnectReturns

SpecSdk == InitSync /\ [][NextSdk]_vars

\* ------------------------------------------------------------------------
\* SpecRpc: two concurrent calls on one GovernanceClientRedis instance
\* ------------------------------------------------------------------------
InitRpc ==
    /\ policies = <<>>
    /\ evalCtx = NoContext
    /\ evalResult = NoResult
    /\ scanned = <<>>
    /\ loaded = <<>>
    /\ expected = <<>>
    /\ SyncIdle
    /\ EventsIdle
    /\ RpcIdle
    /\ CacheIdle
    /\ LifeIdle
    /\ SdkIdle

NextRpc ==
    \/ \E c \in Calls, kind \in CallKinds : RpcStart(c, kind)
    \/ \E c \in Calls : RpcConnectOk(c)
    \/ \E c \in Calls : RpcStepFails(c)
    \/ \E c \in Calls : RpcXaddOk(c)
    \/ \E c \in Calls : RpcGroupOk(c)
    \/ \E c \in Calls : RpcReadOk(c)
    \/ \E c \in Calls : RpcReadEmpty(c)
    \/ \E c \in Calls : RpcReadOrAckFails(c)
    \/ \E c \in Calls : RpcSleepDone(c)
    \/ \E c \in Calls : RpcXackOk(c)
    \/ \E c \in Calls : \E decision \in ServiceDecisions(call[c].kind) :
          ServiceResponds(c, decision)
    \/ ServiceJunk

SpecRpc == InitRpc /\ [][NextRpc]_vars

\* an await of the call of c ends: it returns or it raises
CallStep(c) ==
    \/ RpcConnectOk(c)
    \/ RpcStepFails(c)
    \/ RpcXaddOk(c)
    \/ RpcGroupOk(c)
    \/ RpcReadOk(c)
    \/ RpcReadEmpty(c)
    \/ RpcReadOrAckFails(c)
    \/ RpcSleepDone(c)
    \/ RpcXackOk(c)

\* one call of each kind; the decision of an answer has no part in the wait
NextRpcFair ==
    \/ RpcStart("c1", "permission_check")
    \/ RpcStart("c2", "result_validation")
    \/ \E c \in Calls : CallStep(c)
    \/ ServiceResponds("c1", "ALLOW")
    \/ ServiceResponds("c2", "ACCEPT")
    \/ ServiceJunk

\* every Redis command and every sleep of a call ends
SpecRpcFair ==
    InitRpc /\ [][NextRpcFair]_vars /\ \A c \in Calls : WF_vars(CallStep(c))

\* ------------------------------------------------------------------------
\* SpecCache: concurrent check_permission calls on one GovernanceClient
\* ------------------------------------------------------------------------
InitCache ==
    /\ policies = <<>>
    /\ evalCtx = NoContext
    /\ evalResult = NoResult
    /\ scanned = <<>>
    /\ loaded = <<>>
    /\ expected = <<>>
    /\ SyncIdle
    /\ EventsIdle
    /\ RpcIdle
    /\ CacheIdle
    /\ LifeIdle
    /\ SdkIdle

NextCache ==
    \/ \E p \in PCallers, t \in Triples : CheckPermission(p, t)
    \/ \E p \in PCallers, allowed \in BOOLEAN : ApiReturns(p, allowed)
    \/ \E p \in PCallers : ApiFails(p)
    \/ \E p \in PCallers : CallerResumes(p)
    \/ \E d \in ClockSteps : ClockAdvance(d)

SpecCache == InitCache /\ [][NextCache]_vars

\* ------------------------------------------------------------------------
\* SpecKeys: check_permission with identifiers that contain ':'
\* ------------------------------------------------------------------------
NextKeys ==
    \/ \E p \in PCallers, t \in ColonTriples : CheckPermission(p, t)
    \/ \E p \in PCallers, allowed \in BOOLEAN : ApiReturns(p, allowed)
    \/ \E p \in PCallers : ApiFails(p)
    \/ \E p \in PCallers : CallerResumes(p)
    \/ \E d \in ClockSteps : ClockAdvance(d)

SpecKeys == InitCache /\ [][NextKeys]_vars

\* ------------------------------------------------------------------------
\* Claims about PolicyEngine.evaluate
\* ------------------------------------------------------------------------
BlockingDenyMatches(d, context) ==
    \E i \in 1..Len(d) :
        /\ evaluate_expression(d[i], context)
        /\ d[i].decision = DENY
        /\ d[i].enforcement \in {HARD, CRITICAL}

\* C1: if at least one matching rule is a DENY with HARD or CRITICAL
\* enforcement, the final decision of the evaluation is DENY, whatever the
\* priorities and whatever WARN / REQUIRE_APPROVAL rules also match.
C1_HardDenyForcesDeny ==
    (evalResult.kind # "none" /\ BlockingDenyMatches(scanned, evalCtx))
        => evalResult.decision = DENY

\* the rules of d that match the context, in evaluation order
RECURSIVE MatchingIds(_, _)
MatchingIds(ps, context) ==
    IF ps = <<>> THEN <<>>
    ELSE IF evaluate_expression(Head(ps), context)
         THEN <<Head(ps).id>> \o MatchingIds(Tail(ps), context)
         ELSE MatchingIds(Tail(ps), context)

\* an evaluation that ends with DENY and a recorded violation raises
\* PolicyViolationError carrying the first matched policy
DenySignalled ==
    (evalResult.kind # "none" /\ evalResult.decision = DENY
        /\ evalResult.violations # <<>>)
        => /\ evalResult.kind = "PolicyViolationError"
           /\ ~evalResult.allowed
           /\ evalResult.matched_policies # <<>>
           /\ evalResult.policy_id = evalResult.matched_policies[1]
           /\ evalResult.policy_id =
                 MatchingIds(SortedByPriority(scanned), evalCtx)[1]

\* the higher-priority WARN rule r2 and the HARD DENY rule r1 both match
\* action "delete": the violation carries r2, the first matched policy
C13_Witness ==
    /\ evalResult.kind = "PolicyViolationError"
    /\ evalCtx.action = "delete"
    /\ evalResult.decision = DENY
    /\ evalResult.matched_policies = <<"r2", "r1">>
    /\ evalResult.violations = <<"n1">>
    /\ evalResult.policy_id = "r2"

\* the single rule r1 (DENY, HARD, action == 'delete') and action "delete"
SingleHardDeny ==
    (/\ evalResult.kind # "none"
     /\ Len(scanned) = 1
     /\ scanned[1].decision = DENY
     /\ scanned[1].enforcement = HARD
     /\ scanned[1].expression = ExprDelete
     /\ evalCtx.action = "delete")
        => /\ evalResult.kind = "PolicyViolationError"
           /\ evalResult.decision = DENY
           /\ evalResult.policy_id = "r1"

\* C13: an evaluation that ends with decision DENY and at least one recorded
\* violation signals PolicyViolationError, with decision DENY and, as
\* policy_id, the first entry of the matched-policy list, never a plain
\* return; for the single rule r1 (DENY, HARD, action == 'delete') and action
\* "delete" the outcome is DENY with policy r1.
C13_ViolationSignalled == DenySignalled /\ SingleHardDeny

\* some matching rule asks for approval
ApprovalMatches(d, context) ==
    \E i \in 1..Len(d) :
        /\ evaluate_expression(d[i], context)
        /\ d[i].decision = REQUIRE_APPROVAL

\* C14: when no matching rule is a HARD/CRITICAL DENY the call returns, with
\* decision REQUIRE_APPROVAL if some matching rule has that decision and
\* ALLOW otherwise; with no rule matching it returns ALLOW, allowed, with an
\* empty matched-policy list.
C14_NoBlockingDeny ==
    (evalResult.kind # "none" /\ ~BlockingDenyMatches(scanned, evalCtx))
        => /\ evalResult.kind = "return"
           /\ evalResult.allowed
           /\ evalResult.decision =
                 (IF ApprovalMatches(scanned, evalCtx)
                  THEN REQUIRE_APPROVAL ELSE ALLOW)
           /\ evalResult.matched_policies =
                 MatchingIds(SortedByPriority(scanned), evalCtx)
           /\ (\A i \in 1..Len(scanned) :
                  ~evaluate_expression(scanned[i], evalCtx))
                 => /\ evalResult.decision = ALLOW
                    /\ evalResult.matched_policies = <<>>

\* a SOFT DENY and a REQUIRE_APPROVAL rule both match: approval is required
C14_Witness ==
    /\ evalResult.kind = "return"
    /\ evalResult.decision = REQUIRE_APPROVAL
    /\ Len(scanned) = 2
    /\ \E i \in 1..2 : /\ scanned[i].decision = DENY
                       /\ scanned[i].enforcement = SOFT
    /\ Len(evalResult.matched_policies) = 2

\* ------------------------------------------------------------------------
\* Claims about the Policy Store and its refresh
\* ------------------------------------------------------------------------
\* C4: the rule set scanned by an evaluate call is exactly the complete set
\* most recently handed to load_policies (or the empty startup store), never
\* a cleared, partial or mixed store.
C4_EvaluateSeesCompleteSnapshot ==
    evalResult.kind # "none" => scanned = expected

C4_Witness ==
    /\ evalResult.kind # "none"
    /\ Len(scanned) = 2
    /\ sync_count >= 1
    /\ \E c \in Callers : task[c].pc = "body"

Unparsable(data) == \E i \in 1..Len(data) : data[i].id = NULL

\* the step ends a refresh of caller c that failed
RefreshFailed(c) ==
    /\ task[c].pc # "idle"
    /\ task'[c].pc = "idle"
    /\ \/ done'.exc
       \/ done'.status \notin {200, 404}
       \/ done'.status = 200 /\ Unparsable(done'.data)

\* C5: a refresh that fails (HTTP status other than 200/404, an exception
\* of the fetch, an unparsable policy record) leaves the Policy Store and
\* the last-sync time unchanged, calls on_policy_update not at all, adds
\* exactly one to the error counter and raises nothing to its caller.
C5_FailedRefreshKeepsSnapshot ==
    [][\A c \in Callers :
          RefreshFailed(c) =>
              /\ policies' = policies
              /\ loaded' = loaded
              /\ last_sync' = last_sync
              /\ sync_errors' = sync_errors + 1
              /\ ~done'.escaped]_vars

C5_Witness ==
    /\ policies # <<>>
    /\ last_sync # NoSync
    /\ sync_errors >= 1
    /\ done.caller # NULL
    /\ ~done.exc
    /\ done.status = 200
    /\ Unparsable(done.data)

\* ------------------------------------------------------------------------
\* Claims about the event buffer
\* ------------------------------------------------------------------------
\* C6: in every reachable state of the EventClient the number of buffered
\* events is at most event_buffer_size.
C6_BufferBound == Len(buffer) <= event_buffer_size

C6_Witness ==
    /\ Len(buffer) = event_buffer_size
    /\ failures >= 1
    /\ nextId > event_buffer_size + 2

LastN(q, n) == IF Len(q) <= n THEN q ELSE SubSeq(q, Len(q) - n + 1, Len(q))

\* C7: after k publishes with no drain in between the buffer holds the last
\* min(k, capacity) of the events it held and accepted, in publish order:
\* a publish to a full buffer removes exactly the oldest buffered event.
C7_DropOldest == buffer = LastN(base \o pubs, event_buffer_size)

C7_Witness ==
    /\ base = <<>>
    /\ Len(pubs) = event_buffer_size + 2
    /\ buffer = SubSeq(pubs, 3, Len(pubs))

\* events in the buffer or in a batch whose write has not ended
Held ==
    SeqSet(buffer) \cup SeqSet(worker.batch) \cup SeqSet(disc.batch)
        \cup UNION {SeqSet(b) : b \in capInflight}

\* C8: when the requeue after a failed batch write has to drop events, the
\* events dropped were published before every event that stays buffered.
C8_RequeueKeepsNewest ==
    [][failures' = failures + 1 =>
          \A d \in Held \ Held' : \A k \in SeqSet(buffer') : d < k]_vars

\* ------------------------------------------------------------------------
\* Claims about the correlation RPC client
\* ------------------------------------------------------------------------
\* the response addressed to call c has been delivered to c by a read
OwnResponseRead(c) ==
    \E i \in seen[c] : responses[i].correlation_id = c

\* C2: a call that ends without having read a response with its own
\* correlation id returns DENY (check_permission) or FLAG_FOR_REVIEW
\* (validate_result); no call raises, and none returns ALLOW or ACCEPT
\* without a matching response.
C2_FailSafeDefault ==
    \A c \in Calls :
        call[c].pc = "returned" =>
            /\ call[c].result.kind \in {"default", "response"}
            /\ ~OwnResponseRead(c) =>
                  call[c].result.decision =
                      IF call[c].kind = "permission_check" THEN "DENY"
                      ELSE "FLAG_FOR_REVIEW"
            /\ call[c].result.decision \in {"ALLOW", "ACCEPT"} =>
                  OwnResponseRead(c)

C2_Witness ==
    /\ call["c1"].pc = "returned"
    /\ call["c1"].kind = "permission_check"
    /\ call["c1"].elapsed = TimeoutSlices
    /\ call["c1"].result.decision = "DENY"
    /\ call["c2"].pc = "returned"
    /\ call["c2"].kind = "result_validation"
    /\ call["c2"].result.decision = "FLAG_FOR_REVIEW"
    /\ "c2" \notin requests
    /\ ~OwnResponseRead("c1")

\* C3: a call never returns the payload of a record whose correlation_id
\* differs from the id of its own request.
C3_CorrelationLaw ==
    \A c \in Calls :
        (call[c].pc = "returned" /\ call[c].result.kind = "response")
            => call[c].result.correlation_id = c

C3_Witness ==
    /\ call["c1"].pc = "returned"
    /\ call["c1"].result.kind = "response"
    /\ Len(responses) >= 2
    /\ responses[1].correlation_id = "c2"
    /\ 1 \in seen["c1"]

\* C9: when a call returns, no record that a read delivered to it is left
\* unacknowledged in the consumer group.
C9_AllDeliveredAcked ==
    \A c \in Calls :
        call[c].pc = "returned" => \A e \in pel : e.consumer # c

\* ------------------------------------------------------------------------
\* Claims about the permission cache
\* ------------------------------------------------------------------------
\* an entry for the key exists and is younger than the TTL of its result
FreshEntry(key) ==
    \E i \in 1..Len(pcache) :
        /\ pcache[i].key = key
        /\ cnow - pcache[i].cached_at <
              (IF pcache[i].allowed THEN cache_ttl_approved
               ELSE cache_ttl_denied)

\* the step is the cache lookup of a check_permission call of p
Lookup(p) == pcall[p].pc = "idle" /\ pcall'[p].pc # "idle"

\* C10: check_permission returns the cached result without calling the
\* service if and only if an entry for the key exists and its age is below
\* cache_ttl_approved for an allowed result, below cache_ttl_denied for a
\* denied one.
C10_CacheHitRule ==
    [][\A p \in PCallers :
          Lookup(p) =>
              /\ (pcall'[p].pc = "returned" /\ pcall'[p].source = "cache")
                     <=> FreshEntry(pcall'[p].key)
              /\ pcall'[p].source = "cache" =>
                     \E i \in 1..Len(pcache) :
                         /\ pcache[i].key = pcall'[p].key
                         /\ pcache[i].allowed = pcall'[p].allowed]_vars

\* an allowed entry aged 10 s has been served from the cache to p1 while
\* the call of p2 for a denied entry aged 10 s has gone to the service
C10_Witness ==
    /\ pcall["p1"].pc = "returned"
    /\ pcall["p1"].source = "cache"
    /\ pcall["p2"].pc = "post"
    /\ \E i, j \in 1..Len(pcache) :
          /\ pcache[i].key = pcall["p1"].key
          /\ pcache[i].allowed
          /\ cnow - pcache[i].cached_at = 10
          /\ pcache[j].key = pcall["p2"].key
          /\ ~pcache[j].allowed
          /\ cnow - pcache[j].cached_at = 10

\* the step is the insert of the service's answer to the call of p
Insert(p) == pcall[p].pc = "post" /\ pcall'[p].source = "api"

\* C11: when an insert finds the cache at capacity, the entry evicted is the
\* one inserted earliest among the entries present, whichever entries have
\* been read since their insertion.
C11_EvictsEarliestInserted ==
    [][\A p \in PCallers :
          (Insert(p) /\ Len(pcache) >= cache_max_size) =>
              \A i \in 1..Len(pcache) :
                  (\A j \in 1..Len(pcache') : pcache'[j].key # pcache[i].key)
                      => \A k \in 1..Len(pcache) :
                             pcache[i].cached_at <= pcache[k].cached_at]_vars

\* the entries of a cache, whatever their order
Entries(d) == {d[i] : i \in 1..Len(d)}

\* C12: a cache hit never changes an entry's cached_at (no sliding
\* expiration): a hit leaves every entry as it was, so an entry inserted at T0
\* is served only while now - T0 is below the TTL of its result, however often
\* it has been read.
C12_NoSlidingExpiration ==
    [][\A p \in PCallers :
          (Lookup(p) /\ pcall'[p].source = "cache") =>
              /\ Entries(pcache') = Entries(pcache)
              /\ \E e \in Entries(pcache') :
                    /\ e.key = pcall'[p].key
                    /\ cnow' - e.cached_at <
                          (IF e.allowed THEN cache_ttl_approved
                           ELSE cache_ttl_denied)]_vars

\* an allowed entry inserted at 0 was read at 20 by p2, and the lookup of p1
\* for the same key at 30 has gone to the service
C12_Witness ==
    /\ cnow = 30
    /\ pcall["p2"].source = "cache"
    /\ pcall["p1"].pc = "post"
    /\ pcall["p1"].key = pcall["p2"].key
    /\ \E e \in Entries(pcache) :
          e.key = pcall["p1"].key /\ e.allowed /\ e.cached_at = 0

\* ------------------------------------------------------------------------
\* Claims about publishing and shutdown of the event client
\* ------------------------------------------------------------------------
\* C15: a publish call only appends to the in-memory buffer and possibly
\* schedules a flush: it writes nothing to the stream, waits for no write,
\* leaves the metrics and the connection alone, and completes in every state,
\* an unreachable substrate or earlier failed flushes included.
C15_PublishFireAndForget ==
    [][nextId' # nextId =>
          /\ UNCHANGED <<written, published_count, failed_count, failures,
                         conn, ev_running, worker, capInflight, disc>>
          /\ buffer' = (IF ev_running THEN DequeAppend(buffer, nextId)
                        ELSE buffer)
          /\ capScheduled' \in {capScheduled, capScheduled + 1}]_vars

\* an event was published and buffered after a batch write had failed
C15_Witness ==
    /\ ev_running
    /\ failures >= 1
    /\ pubs # <<>>
    /\ pubs[Len(pubs)] = buffer[Len(buffer)]

\* C16: once disconnect() has closed the Redis connection no batch write is
\* in flight and none can start: the final flush, the timer worker and every
\* capacity-triggered flush task have finished.
C16_ClosedAfterAllFlushes ==
    conn = "closed" =>
        /\ capInflight = {}
        /\ worker.pc \notin {"sleep", "exec", "cancelled"}
        /\ disc.pc # "exec"
        /\ ~(capScheduled > 0 /\ buffer # <<>>)

\* ------------------------------------------------------------------------
\* Claims about the shutdown of the sync worker
\* ------------------------------------------------------------------------
\* C17: stop() waits for both loops to finish before the Redis and HTTP
\* connections are closed, and once stop() has returned no refresh calls
\* on_policy_update: the Policy Store is not written after stop.
C17_NoWriteAfterStop ==
    /\ []((sync_redis = "closed" \/ http_session = "closed")
            => (pubsub_task = "done" /\ sync_task = "done"))
    /\ [][stop_pc = "done" =>
             (policies' = policies /\ loaded' = loaded
                /\ last_sync' = last_sync /\ sync_count' = sync_count)]_vars

\* ------------------------------------------------------------------------
\* Claims about the timeout of the RPC calls
\* ------------------------------------------------------------------------
\* C18: the wait loop starts no read once the deadline has passed, and every
\* call that has started returns, whether the stream stays empty, delivers
\* records of other calls or malformed records, or the reads fail; a call
\* that got no answer returns the safe default when the timeout has elapsed.
C18_AbsoluteTimeout ==
    /\ [](\A c \in Calls :
            /\ call[c].pc \in {"read", "xack", "sleep"}
                  => call[c].elapsed < TimeoutSlices
            /\ call[c].elapsed <= TimeoutSlices
            /\ (call[c].pc = "returned" /\ call[c].elapsed = TimeoutSlices)
                  => call[c].result = SafeDefault(call[c].kind))
    /\ \A c \in Calls : (call[c].pc # "idle") ~> (call[c].pc = "returned")

\* a call has read the answer of another call and then timed out: it
\* returned the safe default exactly when the timeout had elapsed
C18_Witness ==
    /\ call["c1"].pc = "returned"
    /\ call["c1"].elapsed = TimeoutSlices
    /\ call["c1"].result = SafeDefault(call["c1"].kind)
    /\ seen["c1"] # {}
    /\ "c1" \in requests

\* ------------------------------------------------------------------------
\* Claims about the periodic flush
\* ------------------------------------------------------------------------
\* the event is in the buffer or in a batch that is being written
Pending(e) ==
    \/ e \in SeqSet(buffer)
    \/ e \in SeqSet(worker.batch)
    \/ e \in SeqSet(disc.batch)
    \/ \E batch \in capInflight : e \in SeqSet(batch)

\* C19: while the client is running, every event accepted by a publish call
\* and not discarded by overflow is eventually written to its stream and
\* counted in the published metric, by the timer-driven flush alone if no
\* further publish is made.
C19_PeriodicFlush ==
    /\ [](ev_running => published_count = Cardinality(written))
    /\ \A e \in 1..(MaxEvents + 1) :
          (ev_running /\ e \in SeqSet(buffer))
              ~> (e \in written \/ ~ev_running \/ ~Pending(e))

\* ------------------------------------------------------------------------
\* Claims about the answers of the policy fetch
\* ------------------------------------------------------------------------
\* the step ends the refresh of c with the answer 404
NotFound(c) ==
    /\ task[c].pc = "get"
    /\ task'[c].pc = "idle"
    /\ done'.caller = c
    /\ done'.status = 404
    /\ ~done'.exc

\* C20: a 404 answer to the policy fetch is a successful empty refresh: the
\* Policy Store becomes the empty rule set, the last-sync time is set to the
\* current time and the error counter is not incremented.
C20_NotFoundIsEmptyRefresh ==
    [][\A c \in Callers :
          NotFound(c) =>
              /\ policies' = <<>>
              /\ loaded' = <<>>
              /\ last_sync' = now
              /\ sync_errors' = sync_errors]_vars

\* a 404 has emptied a store that an earlier refresh had filled
C20_Witness ==
    /\ done.status = 404
    /\ ~done.exc
    /\ sync_count = 1
    /\ sync_errors = 0
    /\ policies = <<>>
    /\ last_sync = 1

\* ------------------------------------------------------------------------
\* Claims about non-blocking DENY rules and faulty predicates
\* ------------------------------------------------------------------------
\* the rule list without its i-th rule
Without(d, i) == SubSeq(d, 1, i - 1) \o SubSeq(d, i + 1, Len(d))

\* a DENY rule whose enforcement does not block
NonBlockingDeny(p) == p.decision = DENY /\ p.enforcement \in {SOFT, ADVISORY}

\* C24: a matching DENY rule whose enforcement is SOFT or ADVISORY is
\* recorded in the result's warnings and in matched_policies, is not recorded
\* as a violation, and does not change the decision.
C24_NonBlockingDenyWarns ==
    evalResult.kind # "none" =>
        \A i \in 1..Len(scanned) :
            (evaluate_expression(scanned[i], evalCtx)
                /\ NonBlockingDeny(scanned[i]))
            => /\ scanned[i].name \in SeqSet(evalResult.warnings)
               /\ scanned[i].id \in SeqSet(evalResult.matched_policies)
               /\ scanned[i].name \notin SeqSet(evalResult.violations)
               /\ evalResult.decision =
                     evaluate(Without(scanned, i), evalCtx).decision

\* the predicate of the rule raises for the context
Faulty(p, context) == EvalExpr(p.expression, context) = "raise"

\* C27: a rule whose predicate evaluation raises is treated as not matching:
\* it appears in none of matched_policies, violations, warnings, and the
\* outcome equals that of the same rule set with the faulty rule removed.
C27_FaultyRuleIsolated ==
    evalResult.kind # "none" =>
        \A i \in 1..Len(scanned) :
            Faulty(scanned[i], evalCtx)
            => /\ scanned[i].id \notin SeqSet(evalResult.matched_policies)
               /\ scanned[i].name \notin SeqSet(evalResult.violations)
               /\ scanned[i].name \notin SeqSet(evalResult.warnings)
               /\ evalResult = evaluate(Without(scanned, i), evalCtx)

\* a faulty HARD DENY rule next to a matching WARN rule: only the WARN rule
\* is in the result
C27_Witness ==
    /\ evalResult.kind = "return"
    /\ Len(scanned) = 2
    /\ \E i, j \in 1..2 :
          /\ Faulty(scanned[i], evalCtx)
          /\ scanned[i].decision = DENY
          /\ scanned[i].enforcement = HARD
          /\ scanned[j].decision = WARN
          /\ evalResult.matched_policies = <<scanned[j].id>>
          /\ evalResult.warnings = <<scanned[j].name>>
    /\ evalResult.decision = ALLOW

\* ------------------------------------------------------------------------
\* Claims about the sync worker: refreshes, lifecycle, push and poll loops
\* ------------------------------------------------------------------------
\* the step ends a refresh of caller c (the task was not cancelled)
RefreshEnded(c) ==
    /\ task[c].pc \in {"get", "body"}
    /\ task'[c].pc = "idle"
    /\ pubsub_task' = pubsub_task
    /\ sync_task' = sync_task

\* the refresh recorded in d replaced the store: 200 with a parsable list of
\* policies, or 404
Replaced(d) ==
    /\ d.caller # NULL
    /\ ~d.exc
    /\ \/ d.status = 404
       \/ d.status = 200 /\ ~Unparsable(d.data)

\* C21: a refresh that succeeds right after a successful refresh that got
\* identical upstream data leaves the Policy Store (the rules and their load
\* order) as the first one left it, so every evaluate call gives the same
\* decision, matched list, violations and warnings before and after it.
C21_RefreshIdempotent ==
    [][\A c \in Callers :
          (/\ RefreshEnded(c)
           /\ Replaced(done)
           /\ Replaced(done')
           /\ done'.status = done.status
           /\ done'.data = done.data)
          => /\ policies' = policies
             /\ loaded' = loaded
             /\ \A context \in PolicyContext :
                   evaluate(policies', context) = evaluate(policies, context)]_vars

\* two refreshes have both loaded version 1 of the gateway's policy set
C21_Witness ==
    /\ upstream = 1
    /\ started = 2
    /\ sync_count = 2
    /\ sync_errors = 0
    /\ \A c \in Callers : task[c].pc \in {"idle", "ready"}
    /\ Replaced(done)
    /\ done.data = UpstreamAt[1]
    /\ policies = ParseAll(UpstreamAt[1])
    /\ Len(policies) = 2

\* the state of the worker as the application sees it
WorkerState ==
    IF stop_pc \notin {"idle", "done"} THEN "STOPPING"
    ELSE IF start_pc \in {"connecting", "initial_sync"} THEN "STARTING"
    ELSE IF start_pc = "done" /\ running THEN "RUNNING"
    ELSE "STOPPED"

\* the moves of the state machine; a start() that fails goes back to STOPPED
LifecycleMoves ==
    {<<"STOPPED", "STARTING">>, <<"STARTING", "RUNNING">>,
     <<"RUNNING", "STOPPING">>, <<"STOPPING", "STOPPED">>,
     <<"STARTING", "STOPPED">>}

\* C22: the worker only ever moves STOPPED -> STARTING -> RUNNING ->
\* STOPPING -> STOPPED; a stop() call takes effect only on a RUNNING worker
\* and a start() call only on a STOPPED one, and the push and poll loops
\* exist only between STARTING and the end of STOPPING.
C22_Lifecycle ==
    /\ [][WorkerState' # WorkerState
             => <<WorkerState, WorkerState'>> \in LifecycleMoves]_vars
    /\ [][(stop_pc = "idle" /\ stop_pc' # "idle")
             => WorkerState = "RUNNING"]_vars
    /\ [][(start_pc = "idle" /\ start_pc' # "idle")
             => WorkerState = "STOPPED"]_vars
    /\ []((pubsub_task = "live" \/ sync_task = "live")
             => WorkerState # "STOPPED")

\* pubsub.listen() hands a message of the channel to the listener of a
\* running worker
MessageReceived ==
    /\ pubsub_task = "live"
    /\ running
    /\ inbox # <<>>
    /\ Head(inbox).type = "message"
    /\ Len(inbox') = Len(inbox) - 1

\* C25: every message received on the notification channel while the worker
\* is running triggers one full refresh, whatever the message payload is.
C25_AnyMessageRefreshes ==
    [][MessageReceived
          => /\ task["push"].pc = "idle"
             /\ task'["push"].pc = "get"
             /\ started' = started + 1]_vars

\* the poll loop of a running worker resumes after its sleep
PollResumed ==
    /\ task["poll"].pc = "ready"
    /\ task'["poll"].pc # "ready"
    /\ running
    /\ sync_task' = "live"

\* C26: on each wake-up the poll loop calls refresh if and only if no
\* refresh has completed successfully within the last interval (or none ever
\* has): the time of the last successful refresh is set by every refresh
\* that succeeds, whoever called it, and by no refresh that fails.
C26_PollOnlyWhenStale ==
    [][/\ PollResumed
          => (task'["poll"].pc = "get"
                <=> (last_sync = NoSync
                       \/ now - last_sync >= policy_sync_interval))
       /\ \A c \in Callers :
             RefreshEnded(c)
             => last_sync' = (IF Replaced(done') THEN now ELSE last_sync)]_vars

\* the poll loop refreshes one interval after the initial refresh succeeded
C26_Witness ==
    /\ running
    /\ task["poll"].pc = "get"
    /\ last_sync # NoSync
    /\ now - last_sync >= policy_sync_interval
    /\ done.caller = "start"
    /\ Replaced(done)

\* the version of the gateway's policy set that the store holds (0: the
\* empty startup store)
StoreVersion(store) ==
    IF store = <<>> THEN 0
    ELSE CHOOSE v \in 1..Len(UpstreamAt) : ParseAll(UpstreamAt[v]) = store

\* C30: when the initial, push-triggered and poll-triggered refreshes
\* overlap, the store never ends up holding a snapshot that was fetched from
\* an older upstream state than a snapshot it has already loaded.
C30_StoreNeverRegresses ==
    [][StoreVersion(policies') >= StoreVersion(policies)]_vars

\* ------------------------------------------------------------------------
\* Claims about concurrent calls on one response stream
\* ------------------------------------------------------------------------
\* C23: when several calls on the same instance are waiting at the same time
\* and the governance service appends a response for each of them, every
\* call gets its own response: a record addressed to a call that has not
\* returned yet is never delivered to another caller's read instead.
C23_OwnResponseDelivered ==
    \A c \in Calls : \A i \in 1..Len(responses) :
        (/\ responses[i].correlation_id = c
         /\ i <= lastDelivered
         /\ call[c].pc # "returned")
        => i \in seen[c]

\* ------------------------------------------------------------------------
\* Claims about the publisher's memory and its shutdown
\* ------------------------------------------------------------------------
\* C28: the number of events the publisher holds at any time, in the buffer
\* and in batch writes that have not yet completed, never exceeds
\* 2 x event_buffer_size.
C28_BoundedMemory == Cardinality(Held) <= 2 * event_buffer_size

\* C29: while the substrate accepts writes, no accepted event is lost by the
\* shutdown: an event leaves the publisher's hands only by being written or
\* by being evicted by a publish to a full buffer, and when disconnect()
\* returns no event is left in the buffer or in a batch write in flight.
C29_ShutdownLosesNothing ==
    /\ []((disc.pc = "done" /\ failed_count = 0) => Held = {})
    /\ [][(failed_count' = 0 /\ nextId' = nextId)
             => \A e \in Held \ Held' : e \in written']_vars

\* ------------------------------------------------------------------------
\* Claims about the results evaluate hands back
\* ------------------------------------------------------------------------
\* C33: every PolicyResult that evaluate returns has allowed = TRUE and a
\* decision different from DENY, satisfies allowed = (decision is not DENY),
\* and carries an empty violations list: a DENY outcome reaches the caller
\* only as PolicyViolationError.
C33_NoDenialReturned ==
    evalResult.kind = "return"
        => /\ evalResult.allowed
           /\ evalResult.decision # DENY
           /\ evalResult.allowed = (evalResult.decision # DENY)
           /\ evalResult.violations = <<>>

\* the rule with this id is scanned before the rule with that id: higher
\* priority first, equal priorities in the order of the dict
ScannedBefore(d, a, b) ==
    LET i == DictIndex(d, a, 1)
        j == DictIndex(d, b, 1)
    IN  \/ d[i].priority > d[j].priority
        \/ d[i].priority = d[j].priority /\ i < j

\* C37: rules are evaluated in descending priority with ties kept in load
\* order: matched_policies lists exactly the matching rule ids, each once, in
\* that order, and the policy id carried by a violation is the matching rule
\* of highest priority, the earliest loaded among equal priorities.
C37_ScanOrder ==
    evalResult.kind # "none" =>
        LET m == evalResult.matched_policies
            ids == SeqSet(MatchingIds(scanned, evalCtx))
        IN  /\ SeqSet(m) = ids
            /\ Len(m) = Cardinality(ids)
            /\ \A i \in 1..Len(m) : \A j \in 1..Len(m) :
                  i < j => ScannedBefore(scanned, m[i], m[j])
            /\ evalResult.kind = "PolicyViolationError"
                  => /\ evalResult.policy_id \in ids
                     /\ \A id \in ids \ {evalResult.policy_id} :
                           ScannedBefore(scanned, evalResult.policy_id, id)

\* two matching rules of equal priority, the HARD DENY rule loaded second:
\* the violation carries the rule loaded first
C37_Witness ==
    /\ evalResult.kind = "PolicyViolationError"
    /\ Len(scanned) = 2
    /\ scanned[1].priority = scanned[2].priority
    /\ scanned[1].decision = WARN
    /\ scanned[2].decision = DENY
    /\ evalResult.matched_policies = <<"r1", "r2">>
    /\ evalResult.policy_id = "r1"

\* ------------------------------------------------------------------------
\* Claims about the capacity-triggered flush
\* ------------------------------------------------------------------------
\* a publish call that is accepted into the buffer
PublishAccepted == nextId' = nextId + 1 /\ ev_running

\* a flush task created by a publish call starts running
CapFlushRuns == capScheduled' = capScheduled - 1

\* a flush created by a publish call ends its batch write successfully
CapFlushWritten == \E b \in capInflight : capInflight' = capInflight \ {b}
                                          /\ written' # written

Serializable(e) == e \in 1..Len(payloads) /\ ~RedisDataRaises(payloads[e])

\* C38: an event whose batch write keeps failing because of that event alone
\* does not hold back the others: while the client is running, every
\* accepted event whose own payload can be serialised, and that overflow
\* does not discard, is eventually written to the log.
C38_NoHeadOfLineBlocking ==
    \A e \in 1..(MaxEvents + 1) :
        (ev_running /\ e \in SeqSet(buffer) /\ Serializable(e))
            ~> (e \in written \/ ~ev_running \/ ~Pending(e))

\* ------------------------------------------------------------------------
\* Claims about the keys of the permission cache
\* ------------------------------------------------------------------------
\* C34: a result cached for one (actor, resource, permission_type) triple is
\* never returned for a different triple: every result that check_permission
\* serves from the cache is the answer the service gave to a request for the
\* very triple of the call, identifiers containing ':' included.
C34_CacheIsolation ==
    [][\A p \in PCallers :
          (Lookup(p) /\ pcall'[p].source = "cache") =>
              \E e \in Entries(pcache) :
                  /\ e.key = pcall'[p].key
                  /\ e.request = pcall'[p].request]_vars

\* ------------------------------------------------------------------------
\* Claims about the loss of the push channel
\* ------------------------------------------------------------------------
\* the push listener has ended although nobody stopped the worker
PushLoopFailed == pubsub_task = "done" /\ stop_pc = "idle"

\* the Policy Store does not hold the policy set the gateway holds
Stale == policies # ParseAll(UpstreamAt[upstream])

\* the poll loop is between two refreshes and the model follows it no
\* further: the refreshes or the clock ticks the model counts are used up
PollExhausted ==
    /\ task["poll"].pc \in {"idle", "ready"}
    /\ started >= MaxSyncs \/ last_sync >= MaxTime

\* C36: when the push loop has ended with an error the worker stays running
\* with its poll loop alive, and a policy set the gateway holds that the
\* store does not hold is eventually loaded by the poll loop, unless the
\* worker is stopped or a fetch fails.
C36_PollOnlyFallback ==
    /\ [](PushLoopFailed => running /\ sync_task = "live")
    /\ (PushLoopFailed /\ Stale)
          ~> (~Stale \/ stop_pc # "idle" \/ sync_errors > 0 \/ PollExhausted)

\* after the push loop failed, the poll loop has loaded the second version
\* of the gateway's policy set
C36_Witness ==
    /\ PushLoopFailed
    /\ running
    /\ upstream = 2
    /\ ~Stale
    /\ done.caller = "poll"
    /\ sync_errors = 0
    /\ inbox = <<>>
    /\ notified = 0

CoroutineGoverned ==
    /\ gcall.evaluated
    /\ gcall.calls > 0 => evalResult.kind = "return"
    /\ evalResult.kind = "PolicyViolationError"
          => /\ gcall.calls = 0
             /\ gcall.event = "policy_violation"
             /\ gcall.outcome = "PolicyViolationError"
    /\ evalResult.kind = "return"
          => /\ gcall.calls = 1
             /\ gcall.outcome \in FuncOutcomes
             /\ gcall.event = IF gcall.outcome = "result"
                              THEN "task_completed" ELSE "task_failed"

C32_NodeBlockedOnDeny ==
    (/\ gcall.pc = "returned"
     /\ gcall.wrapper = "node"
     /\ gcall.evaluated
     /\ evalResult.decision = DENY
     /\ BlockingDenyMatches(scanned, evalCtx))
        => /\ gcall.calls = 0
           /\ gcall.event = "policy_violation"
           /\ gcall.outcome = "access_denied"

\* ------------------------------------------------------------------------
\* Claims about a failed initialization
\* ------------------------------------------------------------------------
\* C39: if initialize() fails with InitializationError after some components
\* were started, then once a following disconnect() has returned no
\* background task (flush worker, push loop, poll loop) is still running and
\* no Redis connection or HTTP session opened by initialize() is open.
C39_FailedInitLeavesNothing ==
    (sdk.init_pc = "failed" /\ sdk.disc_pc = "done")
        => /\ worker.pc \in {"none", "done"}
           /\ pubsub_task \in {"none", "done"}
           /\ sync_task \in {"none", "done"}
           /\ conn # "open"
           /\ sync_redis # "open"
           /\ http_session # "open"
           /\ sdk.http_session # "open"

====
